---- MODULE Spec2Model ----
(***************************************************************************)
(* A model of gameshell's core: metac's incremental byte parser            *)
(* (PartialParse), tokenizer (parse) and interpret_multiple, cmdmat's      *)
(* command matching tree (Mapping), gameshell's deciders and its Evaluator *)
(* with its sub-commands and builtin commands, and the IncConsumer loop    *)
(* that drives a GameShell from a byte source.                             *)
(***************************************************************************)
EXTENDS Integers, Sequences, FiniteSets, TLC

VARIABLES
    lparen_stack,            \* PartialParse.lparen_stack
    has_encountered_rparen,  \* PartialParse.has_encountered_rparen
    hist,                    \* the parse_increment calls made so far, in order
    line,                    \* the argument of parse
    parsed,                  \* the outcome of parse(line), once it has run
    mapping,                 \* the root Mapping of the matching tree
    prevMapping,             \* the tree as it was before the last register call
    regLog,                  \* the register calls made on the root, in order
    code,                    \* the argument of interpret_multiple
    interpreted,             \* the outcome of interpret_multiple(code), once it has run
    current_depth,           \* Evaluator.current_depth
    max_depth,               \* Evaluator.max_depth
    context,                 \* Evaluator.context: the calls its handlers counted
    statement,               \* the argument of the evaluator's interpret_single
    result,                  \* the outcome of interpret_single(statement), once it has run
    decInput,                \* the tokens a decider function is called with
    decision,                \* the decider called and its Decision, once it has run
    reader,                  \* GameShell.reader: the bytes the source has yet to deliver
    arrived,                 \* the bytes read from the source so far, in order
    buf,                     \* run's buf
    begin,                   \* run's begin
    shift,                   \* run's shift
    processed,               \* the arguments of the process calls so far, in order
    evaluated,               \* the arguments of process's interpret_single calls, in order
    writer,                  \* GameShell.writer: the write calls so far, in order
    status,                  \* "running", or what made run return
    validated,               \* the bytes passed to validate so far, in order
    stop_on                  \* the bytes the consumer's validate answers with Stop

vars == <<lparen_stack, has_encountered_rparen, hist, line, parsed,
          mapping, prevMapping, regLog, code, interpreted,
          current_depth, max_depth, context, statement, result,
          decInput, decision,
          reader, arrived, buf, begin, shift, processed, evaluated, writer,
          status, validated, stop_on>>

ppVars == <<lparen_stack, has_encountered_rparen, hist>>
tokVars == <<line, parsed>>
mapVars == <<mapping, prevMapping, regLog>>
multiVars == <<code, interpreted>>
evalVars == <<current_depth, max_depth, context, statement, result>>
decVars == <<decInput, decision>>
incVars == <<reader, arrived, buf, begin, shift, processed, evaluated, writer,
            status, validated, stop_on>>

(***************************************************************************)
(* Bounds of the model.                                                    *)
(***************************************************************************)
\* bytes fed to one PartialParse
MaxFeed == 6
\* open parentheses a fed stream may nest (lparen_stack is a usize)
MaxDepth == 3
\* characters of a line handed to parse
MaxLine == 5
\* invocations of Mapping::register on one tree, the recursive ones
\* included: a spec of n (literal, validator) pairs takes n + 1
MaxRegSteps == 5
\* tokens of a lookup input
MaxTokens == 3
\* nodes of the evaluator's matching tree, the root counted in
MaxNodes == 3
\* the recursion limits set_recursion_limit is called with run from 0 to
MaxLimit == 1
\* Data (atoms and commands, nested ones counted in) of a statement
MaxItems == 4
MaxWords == 2
\* The bytes of a source are at most MaxStream, and run's buffer holds at
\* most MaxBuf bytes.
MaxStream == 4
MaxBuf == 3

NL == "\n"

\* The bytes a stream is made of: a letter, a blank, a newline, parentheses.
Bytes == {"a", " ", NL, "(", ")"}

\* The characters a line is made of.
Chars == {"a", "b", " ", NL, "(", ")"}

----------------------------------------------------------------------------
(***************************************************************************)
(* metac: PartialParse                                                     *)
(***************************************************************************)

\* PartialParse::default()
PartialParseDefault == [lparen_stack |-> 0, has_encountered_rparen |-> FALSE]

\* A newline returns Ready at any depth.
ParseIncrementReadyAnyDepth(st, input) ==
    IF input = NL
    THEN [lparen_stack |-> st.lparen_stack,
          has_encountered_rparen |-> FALSE, op |-> "Ready"]
    ELSE IF input = "("
    THEN [lparen_stack |-> st.lparen_stack + 1,
          has_encountered_rparen |-> st.has_encountered_rparen,
          op |-> IF st.has_encountered_rparen THEN "Discard" ELSE "Unready"]
    ELSE IF input = ")"
    THEN IF st.lparen_stack = 0
         THEN [lparen_stack |-> 0, has_encountered_rparen |-> TRUE,
               op |-> "Discard"]
         ELSE [lparen_stack |-> st.lparen_stack - 1,
               has_encountered_rparen |-> st.has_encountered_rparen,
               op |-> IF st.has_encountered_rparen THEN "Discard" ELSE "Unready"]
    ELSE [lparen_stack |-> st.lparen_stack,
          has_encountered_rparen |-> st.has_encountered_rparen,
          op |-> IF st.has_encountered_rparen THEN "Discard" ELSE "Unready"]

\* The depth-0 newline returns Ready and leaves the discard flag as it was.
ParseIncrementKeepsFlag(st, input) ==
    IF input = NL /\ st.lparen_stack = 0
    THEN [lparen_stack |-> 0,
          has_encountered_rparen |-> st.has_encountered_rparen, op |-> "Ready"]
    ELSE IF input = "("
    THEN [lparen_stack |-> st.lparen_stack + 1,
          has_encountered_rparen |-> st.has_encountered_rparen,
          op |-> IF st.has_encountered_rparen THEN "Discard" ELSE "Unready"]
    ELSE IF input = ")"
    THEN IF st.lparen_stack = 0
         THEN [lparen_stack |-> 0, has_encountered_rparen |-> TRUE,
               op |-> "Discard"]
         ELSE [lparen_stack |-> st.lparen_stack - 1,
               has_encountered_rparen |-> st.has_encountered_rparen,
               op |-> IF st.has_encountered_rparen THEN "Discard" ELSE "Unready"]
    ELSE [lparen_stack |-> st.lparen_stack,
          has_encountered_rparen |-> st.has_encountered_rparen,
          op |-> IF st.has_encountered_rparen THEN "Discard" ELSE "Unready"]

\* PartialParse::parse_increment: the state after the call and the value
\* returned, from the state before the call and the byte.
ParseIncrement(st, input) ==
    IF input = NL /\ st.lparen_stack = 0
    THEN [lparen_stack |-> st.lparen_stack,
          has_encountered_rparen |-> FALSE, op |-> "Ready"]
    ELSE IF input = "("
    THEN [lparen_stack |-> st.lparen_stack + 1,
          has_encountered_rparen |-> st.has_encountered_rparen,
          op |-> IF st.has_encountered_rparen THEN "Discard" ELSE "Unready"]
    ELSE IF input = ")"
    THEN IF st.lparen_stack = 0
         THEN [lparen_stack |-> st.lparen_stack,
               has_encountered_rparen |-> TRUE, op |-> "Discard"]
         ELSE [lparen_stack |-> st.lparen_stack - 1,
               has_encountered_rparen |-> st.has_encountered_rparen,
               op |-> IF st.has_encountered_rparen THEN "Discard" ELSE "Unready"]
    ELSE [lparen_stack |-> st.lparen_stack,
          has_encountered_rparen |-> st.has_encountered_rparen,
          op |-> IF st.has_encountered_rparen THEN "Discard" ELSE "Unready"]

\* One call of parse_increment on the session's parser. The call is recorded
\* with the parser's fields before and after it.
Feed(input) ==
    /\ Len(hist) < MaxFeed
    /\ input = "(" => lparen_stack < MaxDepth
    /\ LET st == [lparen_stack |-> lparen_stack,
                  has_encountered_rparen |-> has_encountered_rparen]
           r == ParseIncrement(st, input)
       IN /\ lparen_stack' = r.lparen_stack
          /\ has_encountered_rparen' = r.has_encountered_rparen
          /\ hist' = Append(hist, [byte |-> input, op |-> r.op,
                                   depth0 |-> st.lparen_stack,
                                   flag0 |-> st.has_encountered_rparen,
                                   depth1 |-> r.lparen_stack,
                                   flag1 |-> r.has_encountered_rparen])
    /\ UNCHANGED <<tokVars, mapVars, multiVars, evalVars, decVars, incVars>>

\* The values a fresh parser returns for the bytes of s, fed in order.
RECURSIVE RunOps(_, _)
RunOps(st, s) ==
    IF s = <<>> THEN <<>>
    ELSE LET r == ParseIncrement(st, Head(s))
         IN <<r.op>> \o RunOps([lparen_stack |-> r.lparen_stack,
                                 has_encountered_rparen |-> r.has_encountered_rparen],
                                Tail(s))

----------------------------------------------------------------------------
(***************************************************************************)
(* metac: parse (the tokenizer)                                            *)
(***************************************************************************)

\* char::is_whitespace, on the characters of the model
IsWhitespace(ch) == ch \in {" ", NL}

\* char::len_utf8: every character of the model is ASCII
LenUtf8(ch) == 1

\* &line[start..stop], with byte offsets counted from 0
Slice(ln, start, stop) == SubSeq(ln, start + 1, stop)

\* Data::Atom(&line[start..stop]) and Data::Command(&line[start..stop]): a
\* token is a slice of the line, that is its place in the line and its text.
Token(kind, ln, start, stop) ==
    [kind |-> kind, start |-> start, stop |-> stop, text |-> Slice(ln, start, stop)]

\* The locals of parse before the loop.
ParseStart == [lparen_stack |-> 0, start |-> 0, stop |-> 0, output |-> <<>>,
               err |-> "none"]

\* A right parenthesis closes the command when one level stays open, too.
ClosesCommandBelowTwo(depth) == depth <= 1

\* parse: if lparen_stack == 0, after lparen_stack -= 1
ClosesCommand(depth) == depth = 0

\* The body of parse's loop for one character.
ParseChar(ln, st, ch) ==
    IF st.lparen_stack > 0
    THEN IF ch = "("
         THEN [st EXCEPT !.lparen_stack = @ + 1, !.stop = @ + LenUtf8(ch)]
         ELSE IF ch = ")"
         THEN IF ClosesCommand(st.lparen_stack - 1)
              THEN [st EXCEPT !.lparen_stack = @ - 1,
                              !.output = Append(@, Token("Command", ln, st.start, st.stop)),
                              !.stop = st.stop + LenUtf8(ch),
                              !.start = st.stop + LenUtf8(ch)]
              ELSE [st EXCEPT !.lparen_stack = @ - 1, !.stop = @ + LenUtf8(ch)]
         ELSE [st EXCEPT !.stop = @ + LenUtf8(ch)]
    ELSE IF IsWhitespace(ch)
    THEN [st EXCEPT !.output = IF st.start # st.stop
                               THEN Append(@, Token("Atom", ln, st.start, st.stop))
                               ELSE @,
                    !.stop = st.stop + LenUtf8(ch),
                    !.start = st.stop + LenUtf8(ch)]
    ELSE IF ch = "("
    THEN [st EXCEPT !.lparen_stack = @ + 1,
                    !.stop = st.stop + LenUtf8(ch),
                    !.start = st.stop + LenUtf8(ch)]
    ELSE IF ch = ")"
    THEN [st EXCEPT !.err = "PrematureRightParenthesis"]
    ELSE [st EXCEPT !.stop = @ + LenUtf8(ch)]

\* The end of the line is accepted at any depth.
ParseFinishNoDangling(ln, st) ==
    [err |-> "none",
     tokens |-> IF st.start # st.stop
                THEN Append(st.output, Token("Atom", ln, st.start, st.stop))
                ELSE st.output]

\* What parse does after the loop.
ParseFinish(ln, st) ==
    IF st.lparen_stack > 0
    THEN [err |-> "DanglingLeftParenthesis", tokens |-> st.output]
    ELSE [err |-> "none",
          tokens |-> IF st.start # st.stop
                     THEN Append(st.output, Token("Atom", ln, st.start, st.stop))
                     ELSE st.output]

\* parse's loop from character i (counted from 1) on, then its end.
RECURSIVE ParseLoop(_, _, _)
ParseLoop(ln, i, st) ==
    IF i > Len(ln) THEN ParseFinish(ln, st)
    ELSE LET nx == ParseChar(ln, st, ln[i])
         IN IF nx.err # "none"
            THEN [err |-> nx.err, tokens |-> nx.output]
            ELSE ParseLoop(ln, i + 1, nx)

\* parse(line, &mut output): the Result and the output buffer
Parse(ln) == ParseLoop(ln, 1, ParseStart)

\* The lines handed to parse.
Lines == UNION {[1..n -> Chars] : n \in 0..MaxLine}

\* One call of parse on the line.
DoParse ==
    /\ ~parsed.done
    /\ LET r == Parse(line)
       IN parsed' = [done |-> TRUE, err |-> r.err, tokens |-> r.tokens]
    /\ UNCHANGED <<line, ppVars, mapVars, multiVars, evalVars, decVars, incVars>>

----------------------------------------------------------------------------
(***************************************************************************)
(* metac: Evaluate::interpret_multiple, on an evaluator that records the   *)
(* statements it is handed (as the Eval of metac's tests counts them).     *)
(***************************************************************************)

\* The locals of interpret_multiple before the loop; stmts are the slices
\* handed to interpret_single, err the ParseError returned. The result is
\* T::default() (0) or what evaluate returned for the n-th slice (n): the
\* T of the evaluator is opaque to interpret_multiple.
InterpretMultipleStart ==
    [old_idx |-> 0, lparen_stack |-> 0, idx |-> 0, seen_non_ws |-> FALSE,
     stmts |-> <<>>, err |-> "none", result |-> 0]

\* A newline at depth 0 ends the statement, whatever came before it.
EndsStatementBlank(ch, stack, seen_non_ws) == ch = NL /\ stack = 0

\* A newline ends the statement at any depth.
EndsStatementAnyDepth(ch, stack, seen_non_ws) == ch = NL /\ seen_non_ws

\* The first test of the loop of interpret_multiple: the character ends the
\* statement.
EndsStatement(ch, stack, seen_non_ws) ==
    ch = NL /\ stack = 0 /\ seen_non_ws

\* The result of the first statement is kept.
AssignResultOnce(old, new) == IF old = 0 THEN new ELSE old

\* result = self.interpret_single(..)?: the result so far is overwritten
AssignResult(old, new) == new

\* self.interpret_single(&code[old_idx..idx])? in interpret_multiple: the
\* slice is recorded, and the error of parse, if any, is returned.
InterpretSlice(cd, st) ==
    LET r == Parse(Slice(cd, st.old_idx, st.idx))
    IN [st EXCEPT !.stmts = Append(@, [start |-> st.old_idx, stop |-> st.idx,
                                       text |-> Slice(cd, st.old_idx, st.idx)]),
                  !.err = r.err,
                  !.result = IF r.err = "none"
                             THEN AssignResult(@, Len(st.stmts) + 1)
                             ELSE @]

\* The body of interpret_multiple's loop for one character.
InterpretMultipleChar(cd, st, ch) ==
    LET nx ==
          IF EndsStatement(ch, st.lparen_stack, st.seen_non_ws)
          THEN LET r == InterpretSlice(cd, [st EXCEPT !.seen_non_ws = FALSE])
               IN IF r.err # "none" THEN r ELSE [r EXCEPT !.old_idx = st.idx + 1]
          ELSE IF ch = "("
          THEN [st EXCEPT !.lparen_stack = @ + 1]
          ELSE IF ch = ")"
          THEN IF st.lparen_stack = 0
               THEN [st EXCEPT !.err = "PrematureRightParenthesis"]
               ELSE [st EXCEPT !.lparen_stack = @ - 1]
          ELSE IF ~IsWhitespace(ch)
          THEN [st EXCEPT !.seen_non_ws = TRUE]
          ELSE st
    IN IF nx.err # "none" THEN nx ELSE [nx EXCEPT !.idx = @ + LenUtf8(ch)]

\* What interpret_multiple does after the loop.
InterpretMultipleFinish(cd, st) ==
    IF st.idx # st.old_idx /\ st.seen_non_ws THEN InterpretSlice(cd, st) ELSE st

\* interpret_multiple's loop from character i (counted from 1) on, then its
\* end.
RECURSIVE InterpretMultipleLoop(_, _, _)
InterpretMultipleLoop(cd, i, st) ==
    IF i > Len(cd) THEN InterpretMultipleFinish(cd, st)
    ELSE LET nx == InterpretMultipleChar(cd, st, cd[i])
         IN IF nx.err # "none" THEN nx ELSE InterpretMultipleLoop(cd, i + 1, nx)

\* interpret_multiple(code): the statements interpreted and the ParseError
\* returned, if any.
InterpretMultiple(cd) ==
    LET st == InterpretMultipleLoop(cd, 1, InterpretMultipleStart)
    IN [err |-> st.err, stmts |-> st.stmts, result |-> st.result]

\* One call of interpret_multiple on the code.
DoInterpretMultiple ==
    /\ ~interpreted.done
    /\ LET r == InterpretMultiple(code)
       IN interpreted' = [done |-> TRUE, err |-> r.err, stmts |-> r.stmts,
                          result |-> r.result]
    /\ UNCHANGED <<code, ppVars, tokVars, mapVars, evalVars, decVars, incVars>>

----------------------------------------------------------------------------
(***************************************************************************)
(* cmdmat: Mapping                                                         *)
(*                                                                         *)
(* A Mapping owns its children, so a tree is a function from the paths of  *)
(* its nodes (sequences of literals, <<>> for the root) to the nodes'      *)
(* decider and finalizer. "None" is the absent decider, 0 the absent       *)
(* finalizer; finalizers are numbered from 1.                              *)
(***************************************************************************)

Literals == {"a", "b"}

\* The deciders specs are registered with: predicates.rs's ANY_STRING and
\* IGNORE_ALL.
RegDeciders == {"ANY_STRING", "IGNORE_ALL"}

\* The decider of cmdmat's test decider_of_two_overrun, which accepts two
\* tokens whatever the input is.
TestDeciders == {"TWO"}

\* The (literal, Option<decider>) pairs of the specs registered: a with any
\* of the deciders or none, b with ANY_STRING or none.
Items == [literal : {"a"}, decider : {"None"} \cup RegDeciders \cup TestDeciders]
             \cup [literal : {"b"}, decider : {"None", "ANY_STRING"}]

\* The first components of the specs registered: those of at most n pairs.
SpecPaths(n) == UNION {[1..k -> Items] : k \in 0..n}

\* The inputs looked up.
Inputs == UNION {[1..n -> Literals] : n \in 0..MaxTokens}

\* Mapping::default(), and the Mapping register builds for a new literal
NewMapping(decider) == (<<>> :> [decider |-> decider, finalizer |-> 0])

\* self.map.insert(key, child), for a key self.map does not hold: the node at
\* path `at` of m gets the tree `child` under `key`.
Insert(m, at, key, child) ==
    LET under == Append(at, key)
    IN [p \in DOMAIN m \cup {under \o q : q \in DOMAIN child} |->
          IF p \in DOMAIN m THEN m[p]
          ELSE child[SubSeq(p, Len(under) + 1, Len(p))]]

\* The finalizer is attached over the one the node has, and the error is
\* returned after.
AttachFinalizerOverwrites(m, at, fin) ==
    [err |-> IF m[at].finalizer # 0 THEN "FinalizerAlreadyExists" ELSE "none",
     map |-> [m EXCEPT ![at].finalizer = fin]]

\* register at the end of the spec's path: the finalizer is attached to the
\* node unless it has one.
AttachFinalizer(m, at, fin) ==
    IF m[at].finalizer # 0
    THEN [err |-> "FinalizerAlreadyExists", map |-> m]
    ELSE [err |-> "none", map |-> [m EXCEPT ![at].finalizer = fin]]

\* Any spec is refused at a literal self.map holds: specs share no prefix.
DeciderRefusedAlways(existing, supplied) == TRUE

\* A decider is refused only where the node has another one.
DeciderRefusedIfOther(existing, supplied) ==
    supplied # "None" /\ existing # supplied

\* A decider is refused only where the node has none.
DeciderRefusedIfNone(existing, supplied) ==
    supplied # "None" /\ existing = "None"

\* register at a literal self.map holds: whether the spec's decider for the
\* literal is refused, given the decider of the node found.
DeciderRefused(existing, supplied) == supplied # "None"

\* Mapping::register on the node at path `at` of m: the Result and the tree
\* after the call. A node found in self.map is registered into in place; a
\* new Mapping is registered into first and inserted after.
RECURSIVE Register(_, _, _, _)
Register(m, at, spec, fin) ==
    IF spec = <<>>
    THEN AttachFinalizer(m, at, fin)
    ELSE LET key == spec[1].literal
             decider == spec[1].decider
         IN IF Append(at, key) \in DOMAIN m
            THEN IF DeciderRefused(m[Append(at, key)].decider, decider)
                 THEN [err |-> "DeciderAlreadyExists", map |-> m]
                 ELSE Register(m, Append(at, key), Tail(spec), fin)
            ELSE LET r == Register(NewMapping(decider), <<>>, Tail(spec), fin)
                 IN IF r.err # "none"
                    THEN [err |-> r.err, map |-> m]
                    ELSE [err |-> "none", map |-> Insert(m, at, key, r.map)]

\* Decider::description
Description(decider) ==
    CASE decider = "ANY_STRING" -> "<string>"
      [] decider = "IGNORE_ALL" -> "<anything> ..."
      [] decider = "ANY_I32" -> "<i32>"
      [] decider = "MANY_I32" -> "<i32> ..."
      [] decider = "MANY_STRING" -> "<string> ..."
      [] OTHER -> ""

\* The range of i32.
I32Min == (-(2^30)) - 2^30
I32Max == 2^30 + (2^30 - 1)

Digits == <<"0", "1", "2", "3", "4", "5", "6", "7", "8", "9">>
IsDigit(ch) == \E i \in DOMAIN Digits : Digits[i] = ch
DigitValue(ch) == (CHOOSE i \in DOMAIN Digits : Digits[i] = ch) - 1

\* str::parse::<i32> from digit i of the token on: acc is the value of the
\* digits before, which are added for a positive and subtracted for a
\* negative number, with a check against the range at each digit.
RECURSIVE ParseDigits(_, _, _, _)
ParseDigits(tok, i, negative, acc) ==
    IF i > Len(tok) THEN [ok |-> TRUE, value |-> acc]
    ELSE IF ~IsDigit(tok[i]) THEN [ok |-> FALSE, value |-> 0]
    ELSE LET d == DigitValue(tok[i])
         IN IF negative
            THEN IF acc < (I32Min + d + 9) \div 10
                 THEN [ok |-> FALSE, value |-> 0]
                 ELSE ParseDigits(tok, i + 1, negative, acc * 10 - d)
            ELSE IF acc > (I32Max - d) \div 10
                 THEN [ok |-> FALSE, value |-> 0]
                 ELSE ParseDigits(tok, i + 1, negative, acc * 10 + d)

\* input[0].parse::<i32>().ok(): a token is a sequence of characters; an
\* optional sign, then one digit at least, and a value within i32.
ParseI32(tok) ==
    LET signed == tok # <<>> /\ tok[1] \in {"+", "-"}
        first == IF signed THEN 2 ELSE 1
    IN IF first > Len(tok) THEN [ok |-> FALSE, value |-> 0]
       ELSE ParseDigits(tok, first, signed /\ tok[1] = "-", 0)

\* aslen(input, input_l) is Ok
Aslen(input, input_l) == ~(Len(input) < input_l)

\* Decision::Deny(reason) and Decision::Accept(n), with the values pushed
Deny(reason) == [accept |-> FALSE, n |-> 0, push |-> <<>>, reason |-> reason]
Accept(n, push) == [accept |-> TRUE, n |-> n, push |-> push, reason |-> ""]

\* any_i32_function, num being input[0].parse::<i32>()
AnyI32Parsed(input, num) ==
    IF num.ok THEN Accept(1, <<num.value>>)
    ELSE Deny(<<"got string: ", input[1]>>)

\* any_i32_function
AnyI32(input) ==
    IF ~Aslen(input, 1) THEN Deny("Too few elements")
    ELSE AnyI32Parsed(input, ParseI32(input[1]))

\* many_i32_function: the loop from token i on, cnt tokens taken so far
RECURSIVE ManyI32Loop(_, _, _, _)

\* The turn of the loop for token i, num being i.parse::<i32>()
ManyI32Parsed(input, i, cnt, push, num) ==
    IF num.ok
    THEN IF ~Aslen(input, cnt + 1) THEN Deny("Too few elements")
         ELSE ManyI32Loop(input, i + 1, cnt + 1, Append(push, num.value))
    ELSE Accept(cnt, push)

ManyI32Loop(input, i, cnt, push) ==
    IF i > Len(input) THEN Accept(cnt, push)
    ELSE ManyI32Parsed(input, i, cnt, push, ParseI32(input[i]))

ManyI32(input) == ManyI32Loop(input, 1, 0, <<>>)

\* many_string_function
ManyString(input) ==
    IF ~Aslen(input, Len(input)) THEN Deny("Too few elements")
    ELSE Accept(Len(input), input)

\* decide of decider_of_two_overrun: two values pushed, Accept(2)
DecideTwo(input) ==
    [accept |-> TRUE, n |-> 2, push |-> <<"true", "true">>, reason |-> ""]

\* The decider functions: the Decision for the tokens after the literal and
\* the values pushed to the output.
Decide(decider, input) ==
    CASE decider = "TWO" -> DecideTwo(input)
      [] decider = "ANY_I32" -> AnyI32(input)
      [] decider = "MANY_I32" -> ManyI32(input)
      [] decider = "MANY_STRING" -> ManyString(input)
      [] decider = "ANY_STRING" ->
           IF Len(input) < 1
           THEN [accept |-> FALSE, n |-> 0, push |-> <<>>, reason |-> "Too few elements"]
           ELSE [accept |-> TRUE, n |-> 1, push |-> <<input[1]>>, reason |-> ""]
      [] decider = "IGNORE_ALL" ->
           [accept |-> TRUE, n |-> Len(input), push |-> <<>>, reason |-> ""]

\* The deciders of predicates.rs that are called on their own, and the
\* tokens they are called with: two numbers, a word, and a number beyond
\* i32.
Predicates == {"ANY_STRING", "IGNORE_ALL", "ANY_I32", "MANY_I32", "MANY_STRING"}

DecTokens ==
    {<<"7">>, <<"-", "1", "2">>, <<"a">>,
     <<"2", "1", "4", "7", "4", "8", "3", "6", "4", "8">>}

DecInputs == UNION {[1..n -> DecTokens] : n \in 0..MaxTokens}

\* One call of a decider function of predicates.rs on the tokens.
DoDecide(decider) ==
    /\ ~decision.done
    /\ decision' = [done |-> TRUE, decider |-> decider, d |-> Decide(decider, decInput)]
    /\ UNCHANGED <<decInput, ppVars, tokVars, mapVars, multiVars, evalVars, incVars>>

\* A LookError: its kind and what it carries.
LookErr(err, tok, desc, reason) ==
    [err |-> err, tok |-> tok, desc |-> desc, reason |-> reason,
     fin |-> 0, advance |-> 0, out |-> <<>>, visits |-> <<>>]

\* The last token of the input is reported.
UnknownMappingLastToken(input) == LookErr("UnknownMapping", input[Len(input)], "", "")

\* LookError::UnknownMapping(input[0].to_string())
UnknownMapping(input) == LookErr("UnknownMapping", input[1], "", "")

\* The decider is taken to have advanced too far one token late.
AdvancedTooFarOffByOne(input, advance_output) == ~(Len(input) >= advance_output)

\* lookup_internal and partial_lookup_internal after the decider accepted:
\* whether it advanced beyond the input (the literal counted in).
AdvancedTooFar(input, advance_output) == ~(Len(input) > advance_output)

\* A Deny is taken as Accept(0).
DeniedNever(d) == FALSE

\* lookup_internal: the Decision matched is Decision::Deny(res)
Denied(d) == ~d.accept

\* Mapping::lookup_internal on the node at path `at` of m: the Result, and
\* the output buffer on success. visits are the children the traversal
\* went to, in order, each with the Decision of its decider, if it has one.
RECURSIVE LookupInternal(_, _, _, _)

\* The result res of the traversal below a child, seen from its parent.
LookupReturned(res, visit, advance_output) ==
    IF res.err = "none"
    THEN [res EXCEPT !.advance = @ + advance_output, !.visits = <<visit>> \o @]
    ELSE [res EXCEPT !.visits = <<visit>> \o @]

\* What the decider pushed is left out of the output.
PushedNothing(output, d) == output

\* lookup_internal: the output buffer after the decider of the child ran,
\* which pushes its values to the end of it
Pushed(output, d) == output \o d.push

\* lookup_internal at the child handler, d being the Decision of its
\* decider, or Accept(0) when it has none.
LookupChild(m, handler, input, output, d) ==
    IF Denied(d)
    THEN [LookErr("DeciderDenied", "", Description(m[handler].decider), d.reason)
            EXCEPT !.visits = <<[node |-> handler, decider |-> m[handler].decider,
                                 accept |-> d.accept, reason |-> d.reason]>>]
    ELSE IF ~AdvancedTooFar(input, d.n)
    THEN LookupReturned(LookupInternal(m, handler,
                                       SubSeq(input, 2 + d.n, Len(input)),
                                       Pushed(output, d)),
                        [node |-> handler, decider |-> m[handler].decider,
                         accept |-> d.accept, reason |-> d.reason],
                        d.n)
    ELSE [LookErr("DeciderAdvancedTooFar", "", "", "")
            EXCEPT !.visits = <<[node |-> handler, decider |-> m[handler].decider,
                                 accept |-> d.accept, reason |-> d.reason]>>]

LookupInternal(m, at, input, output) ==
    IF input = <<>>
    THEN IF m[at].finalizer # 0
         THEN [err |-> "none", tok |-> "", desc |-> "", reason |-> "",
               fin |-> m[at].finalizer, advance |-> 0, out |-> output,
               visits |-> <<>>]
         ELSE LookErr("FinalizerDoesNotExist", "", "", "")
    ELSE IF Append(at, input[1]) \in DOMAIN m
         THEN LookupChild(m, Append(at, input[1]), input, output,
                          IF m[Append(at, input[1])].decider # "None"
                          THEN Decide(m[Append(at, input[1])].decider, Tail(input))
                          ELSE [accept |-> TRUE, n |-> 0, push |-> <<>>, reason |-> ""])
         ELSE UnknownMapping(input)

\* A lookup's Result, as Mapping::lookup returns it.
LookupResult(r) ==
    [err |-> r.err, tok |-> r.tok, desc |-> r.desc, reason |-> r.reason,
     fin |-> r.fin, out |-> r.out]

\* Mapping::lookup on the root
Lookup(m, input) == LookupResult(LookupInternal(m, <<>>, input, <<>>))

\* The decider's description is returned for an input of any length.
DescribesDeciderAlways(input) == TRUE

\* partial_lookup_internal at a child that has a decider: whether its
\* description is returned instead of running it.
DescribesDecider(input) == Len(input) = 1

\* Mapping::partial_lookup_internal on the node at path `at` of m: the
\* Result, Either::Left as the path of the node returned ("map") and
\* Either::Right as the description ("desc").
RECURSIVE PartialLookupInternal(_, _, _)
PartialLookupInternal(m, at, input) ==
    IF input = <<>>
    THEN [err |-> "none", tok |-> "", desc |-> "", reason |-> "",
          kind |-> "map", node |-> at]
    ELSE LET handler == Append(at, input[1])
             failed(e) == [err |-> e.err, tok |-> e.tok, desc |-> e.desc,
                           reason |-> e.reason, kind |-> "err", node |-> <<>>]
         IN IF handler \in DOMAIN m
            THEN LET decider == m[handler].decider
                     d == IF decider # "None"
                          THEN Decide(decider, Tail(input))
                          ELSE [accept |-> TRUE, n |-> 0, push |-> <<>>, reason |-> ""]
                     advance_output == d.n
                 IN IF decider # "None" /\ DescribesDecider(input)
                    THEN [err |-> "none", tok |-> "", desc |-> Description(decider),
                          reason |-> "", kind |-> "desc", node |-> <<>>]
                    ELSE IF ~d.accept
                    THEN failed(LookErr("DeciderDenied", "", Description(decider), d.reason))
                    ELSE IF ~AdvancedTooFar(input, advance_output)
                    THEN PartialLookupInternal(m, handler,
                             SubSeq(input, 2 + advance_output, Len(input)))
                    ELSE failed(LookErr("DeciderAdvancedTooFar", "", "", ""))
            ELSE failed(UnknownMapping(input))

\* Mapping::partial_lookup on the root
PartialLookup(m, input) == PartialLookupInternal(m, <<>>, input)

\* Mapping::get_direct_keys of the node at path `at` of m
GetDirectKeys(m, at) ==
    {[literal |-> p[Len(p)], decider |-> m[p].decider, finalizer |-> m[p].finalizer] :
        p \in {q \in DOMAIN m : Len(q) = Len(at) + 1 /\ SubSeq(q, 1, Len(at)) = at}}

\* The specs registered with the tree whose validators deny: a and b, each
\* with ANY_I32 or no decider; the literals and the tokens looked up are
\* Strings, a number among the tokens.
DenyItems == [literal : {<<"a">>, <<"b">>}, decider : {"None", "ANY_I32"}]

DenyPaths(n) == UNION {[1..k -> DenyItems] : k \in 0..n}

DenyInputs == UNION {[1..n -> {<<"a">>, <<"b">>, <<"7">>}] : n \in 0..MaxTokens}

\* The invocations of register the calls of a log took.
RECURSIVE RegSteps(_)
RegSteps(log) ==
    IF log = <<>> THEN 0 ELSE Len(Head(log).spec) + 1 + RegSteps(Tail(log))

\* One call of register on the root. Every spec registered has a finalizer of
\* its own.
RegisterCall(spec) ==
    /\ RegSteps(regLog) + Len(spec) + 1 <= MaxRegSteps
    /\ LET fin == Len(regLog) + 1
           r == Register(mapping, <<>>, spec, fin)
       IN /\ mapping' = r.map
          /\ prevMapping' = mapping
          /\ regLog' = Append(regLog, [spec |-> spec, fin |-> fin, err |-> r.err])
    /\ UNCHANGED <<ppVars, tokVars, multiVars, evalVars, decVars, incVars>>

\* The error of a register call is dropped and the loop goes on.
ReturnsErrorNever(err) == FALSE

\* register_many: the ? after self.register(subspec.clone())
ReturnsError(err) == err # "none"

\* Mapping::register_many from the i-th spec of the slice on: the Result,
\* the tree after the call and the index of the spec whose error is
\* returned (0 if none). The i-th spec of the slice has finalizer fin0 + i.
RECURSIVE RegisterManyFrom(_, _, _, _)
RECURSIVE RegisteredOne(_, _, _, _)
RegisterManyFrom(m, specs, i, fin0) ==
    IF i > Len(specs) THEN [err |-> "none", map |-> m, failed |-> 0]
    ELSE RegisteredOne(specs, i, fin0, Register(m, <<>>, specs[i], fin0 + i))

\* register_many: r is what register returned for the i-th spec.
RegisteredOne(specs, i, fin0, r) ==
    IF ReturnsError(r.err)
    THEN [err |-> r.err, map |-> r.map, failed |-> i]
    ELSE RegisterManyFrom(r.map, specs, i + 1, fin0)

RegisterMany(m, specs, fin0) == RegisterManyFrom(m, specs, 1, fin0)

\* The slices of specs whose registration takes at most n register
\* invocations in all.
RECURSIVE Batches(_)
Batches(n) ==
    {<<>>} \cup UNION {{<<spec>> \o rest : rest \in Batches(n - Len(spec) - 1)} :
                          spec \in SpecPaths(n - 1)}

\* The register invocations and the specs of the register_many calls of
\* the log.
RECURSIVE ManySteps(_)
ManySteps(log) ==
    IF log = <<>> THEN 0
    ELSE RegSteps([k \in 1..Len(Head(log).specs) |->
                      [spec |-> Head(log).specs[k]]]) + ManySteps(Tail(log))

RECURSIVE ManySpecs(_)
ManySpecs(log) ==
    IF log = <<>> THEN 0 ELSE Len(Head(log).specs) + ManySpecs(Tail(log))

\* One call of register_many on the root (Evaluator::register_many hands
\* the slice to it). Every spec has a finalizer of its own.
RegisterManyCall(specs) ==
    /\ specs # <<>>
    /\ \E r \in {RegisterMany(mapping, specs, ManySpecs(regLog))} :
          /\ mapping' = r.map
          /\ prevMapping' = mapping
          /\ regLog' = Append(regLog, [specs |-> specs, fin0 |-> ManySpecs(regLog),
                                      err |-> r.err, failed |-> r.failed])
    /\ UNCHANGED <<ppVars, tokVars, multiVars, evalVars, decVars, incVars>>

----------------------------------------------------------------------------
(***************************************************************************)
(* gameshell: Evaluator                                                    *)
(*                                                                         *)
(* A String is the sequence of its characters; a message built from a      *)
(* constant string keeps the constant as one element. The literals of the  *)
(* evaluator's Mapping are Strings.                                        *)
(***************************************************************************)

\* max_depth of Evaluator::new
DefaultMaxDepth == 100

\* The characters of the lines '?' and autocomplete list, in ASCII order.
AsciiOrder ==
    <<NL, " ", "#", "(", ")", ",", ".", "<", ">", "?", "_",
      "a", "b", "c", "d", "e", "f", "g", "h", "i", "j", "k", "l", "m",
      "n", "o", "p", "q", "r", "s", "t", "u", "v", "w", "x", "y", "z">>

\* The place of a character in the order of char.
Rank(ch) == CHOOSE i \in 1..Len(AsciiOrder) : AsciiOrder[i] = ch

\* a <= b for Strings (Ord of str: lexicographic by character)
RECURSIVE StrLeq(_, _)
StrLeq(a, b) ==
    IF a = <<>> THEN TRUE
    ELSE IF b = <<>> THEN FALSE
    ELSE IF Rank(a[1]) # Rank(b[1]) THEN Rank(a[1]) < Rank(b[1])
    ELSE StrLeq(Tail(a), Tail(b))

\* A sorted list with the String x put in before the first greater one.
RECURSIVE InsertSorted(_, _)
InsertSorted(x, list) ==
    IF list = <<>> THEN <<x>>
    ELSE IF StrLeq(x, list[1]) THEN <<x>> \o list
    ELSE <<list[1]>> \o InsertSorted(x, Tail(list))

\* list.sort()
RECURSIVE Sort(_)
Sort(list) ==
    IF list = <<>> THEN <<>> ELSE InsertSorted(list[1], Sort(Tail(list)))

\* list.join(sep)
RECURSIVE Join(_, _)
Join(list, sep) ==
    IF list = <<>> THEN <<>>
    ELSE IF Len(list) = 1 THEN list[1]
    ELSE list[1] \o sep \o Join(Tail(list), sep)

\* The characters of the deciders' descriptions.
StrChars(description) ==
    CASE description = "<string>" -> <<"<", "s", "t", "r", "i", "n", "g", ">">>
      [] description = "<anything> ..." ->
           <<"<", "a", "n", "y", "t", "h", "i", "n", "g", ">", " ", ".", ".", ".">>
      [] OTHER -> <<>>

\* decider.description, as a String
DescriptionText(decider) == StrChars(Description(decider))

\* The literals the two builtin commands answer to.
QuestionMark == <<"?">>
Autocomplete == <<"a", "u", "t", "o", "c", "o", "m", "p", "l", "e", "t", "e">>

\* The paths of the children of the node at path `at` of m (mapping.iter()).
ChildrenOf(m, at) ==
    {p \in DOMAIN m : Len(p) = Len(at) + 1 /\ SubSeq(p, 1, Len(at)) = at}

\* Only an entry without entries of its own is listed.
EntryIsFinalLeaf(m, p) == m[p].finalizer # 0 /\ ChildrenOf(m, p) = {}

\* mapping_to_list: entry.finalizer().is_some()
EntryIsFinal(m, p) == m[p].finalizer # 0

\* mapping_to_list of handle_any_builtin_commands, on the node at path `at`
\* of m. MappingToListOver runs the loop over the entries left; the HashMap
\* gives them in an order of its own, and the list is only used sorted.
RECURSIVE MappingToList(_, _), MappingToListOver(_, _)
MappingToList(m, at) == MappingToListOver(m, ChildrenOf(m, at))

MappingToListOver(m, entries) ==
    IF entries = {} THEN <<>>
    ELSE LET p == CHOOSE q \in entries : TRUE
             key == p[Len(p)]
             has == m[p].decider # "None"
             parameter == IF has THEN DescriptionText(m[p].decider) ELSE <<" ">>
             spacer == IF has THEN <<" ">> ELSE <<>>
             own == IF EntryIsFinal(m, p)
                    THEN <<key \o (IF has THEN <<" ">> ELSE <<>>) \o parameter>>
                    ELSE <<>>
             sub == MappingToList(m, p)
         IN own \o [i \in 1..Len(sub) |->
                       key \o spacer \o parameter \o spacer \o sub[i]]
                \o MappingToListOver(m, entries \ {p})

\* Feedback::Ok and Feedback::Err
FeedbackOk(string) == [ok |-> TRUE, string |-> string]
FeedbackErr(string) == [ok |-> FALSE, string |-> string]

\* lookerr_to_evalres
LookerrToEvalres(err) ==
    CASE err.err = "DeciderAdvancedTooFar" -> FeedbackErr(<<"Decider advanced too far">>)
      [] err.err = "DeciderDenied" ->
           FeedbackErr(<<"Expected ", err.desc, ". Decider: ", err.reason>>)
      [] err.err = "FinalizerDoesNotExist" -> FeedbackErr(<<"Finalizer does not exist">>)
      [] err.err = "UnknownMapping" ->
           FeedbackErr(<<"Unrecognized mapping: ">> \o err.tok)

\* The String sub is a substring of the String ln.
Contains(ln, sub) ==
    \E i \in 0..(Len(ln) - Len(sub)) : SubSeq(ln, i + 1, i + Len(sub)) = sub

\* The captures of Regex::new(".*" + regex + ".*") in the list joined by
\* newlines, for the arguments of the model: "?" makes the first star lazy
\* and every line matches; an argument of letters matches the lines that
\* contain it.
RegexCaptures(regex, list) ==
    SelectSeq(list, LAMBDA ln : regex = QuestionMark \/ Contains(ln, regex))

\* The line of autocomplete for one of get_direct_keys
KeyLine(k) ==
    k.literal
      \o (IF k.decider # "None" THEN <<" ">> \o DescriptionText(k.decider) ELSE <<>>)
      \o (IF k.finalizer # 0 THEN <<" ", "(", "f", "i", "n", "a", "l", ")">> ELSE <<>>)

\* A set of Strings as a sorted Vec.
RECURSIVE SortedOf(_)
SortedOf(set) ==
    IF set = {} THEN <<>>
    ELSE LET x == CHOOSE y \in set : TRUE IN InsertSorted(x, SortedOf(set \ {x}))

\* Evaluator::handle_any_builtin_commands: Some(Feedback) or None
HandleAnyBuiltinCommands(m, content) ==
    IF content = <<>> THEN [some |-> FALSE, fb |-> FeedbackOk(<<>>)]
    ELSE IF content[1] = Autocomplete
    THEN LET r == PartialLookup(m, Tail(content))
         IN [some |-> TRUE,
             fb |-> IF r.kind = "map"
                    THEN LET col == SortedOf({KeyLine(k) : k \in GetDirectKeys(m, r.node)})
                         IN IF col = <<>> THEN FeedbackOk(<<"No more handlers">>)
                            ELSE FeedbackOk(Join(col, <<",", " ">>))
                    ELSE IF r.kind = "desc" THEN FeedbackOk(StrChars(r.desc))
                    ELSE LookerrToEvalres(r)]
    ELSE IF content[1] = QuestionMark
    THEN LET list == MappingToList(m, <<>>)
         IN [some |-> TRUE,
             fb |-> IF Len(content) >= 3
                    THEN FeedbackErr(<<"Too many arguments to: ?">>)
                    ELSE IF Len(content) >= 2
                    THEN FeedbackOk(Join(Sort(RegexCaptures(content[2], list)), <<NL>>))
                    ELSE FeedbackOk(Join(Sort(list), <<NL>>))]
    ELSE [some |-> FALSE, fb |-> FeedbackOk(<<>>)]

\* The handlers registered: 1 is the handler of the test
\* touching_subcommand, which counts its calls in the context and returns
\* Ok("string"); 2 is the handler of the test override_builtins, which
\* returns Err("? is not available").
Handlers == {1, 2}

Handler(fin, ctx, args) ==
    IF fin = 1
    THEN [context |-> ctx + 1, fb |-> FeedbackOk(<<"s", "t", "r", "i", "n", "g">>)]
    ELSE [context |-> ctx, fb |-> FeedbackErr(<<"? is not available">>)]

\* The evaluator's fields with one more event in the record of what the
\* evaluation did: the event's kind, the depth it happened at, and its data.
Log(ev, kind, data) ==
    [ev EXCEPT !.log = Append(@, [kind |-> kind, depth |-> ev.current_depth,
                                  data |-> data])]

\* parse_subcommands: format!["Recursion limit reached: {}", self.max_depth]
LimitMessage(limit) == <<"Recursion limit reached: ", ToString(limit)>>

\* The limit is reached one level late.
LimitReachedLate(depth, limit) == depth > limit

\* parse_subcommands: self.current_depth == self.max_depth
LimitReached(depth, limit) == depth = limit

\* No Command is taken verbatim.
IsEscapedNever(string) == FALSE

\* parse_subcommands: the Command starts with '#'
IsEscaped(string) == string # <<>> /\ string[1] = "#"

\* The depth is restored only after a sub-command that succeeded.
DepthAfterKeptOnFailure(depth, r) ==
    IF r.err = "none" /\ r.fb.ok THEN depth - 1 ELSE depth

\* parse_subcommands: self.current_depth -= 1 after interpret_single
\* returned r
DepthAfter(depth, r) == depth - 1

\* The string of a failed sub-command is pushed as its result.
ChildOutcomePushesErrors(r) ==
    IF r.err = "none" THEN [ok |-> TRUE, string |-> r.fb.string]
    ELSE [ok |-> TRUE, string |-> <<r.err>>]

\* parse_subcommands: the match on what interpret_single returned: the
\* string to push, or the error to return.
ChildOutcome(r) ==
    CASE r.err = "DanglingLeftParenthesis" ->
           [ok |-> FALSE, string |-> <<"Dangling left parenthesis">>]
      [] r.err = "PrematureRightParenthesis" ->
           [ok |-> FALSE,
            string |-> <<"Right parenthesis encountered with no matching left parenthesis">>]
      [] OTHER -> [ok |-> r.fb.ok, string |-> r.fb.string]

\* Evaluate::interpret_single, Evaluator::evaluate and
\* Evaluator::parse_subcommands (from Data i of cmds on, content being what
\* is pushed so far) on an evaluator whose mapping is m and whose other
\* fields are ev.
RECURSIVE InterpretSingle(_, _, _), Evaluate(_, _, _), ParseSubcommands(_, _, _, _, _)

\* interpret_single: Ok(self.evaluate(&parse)), r being what evaluate
\* returned
InterpretEvaluated(r) == [ev |-> r.ev, err |-> "none", fb |-> r.fb]

\* interpret_single, p being parse(statement)
InterpretParsed(m, ev, p) ==
    IF p.err # "none"
    THEN [ev |-> ev, err |-> p.err, fb |-> FeedbackOk(<<>>)]
    ELSE InterpretEvaluated(Evaluate(m, ev, p.tokens))

InterpretSingle(m, ev, stmt) == InterpretParsed(m, ev, Parse(stmt))

\* evaluate returns fb, the evaluator's fields being e.
EvaluateReturned(e, fb) == [ev |-> Log(e, "evaluated", fb), fb |-> fb]

\* evaluate: the handler found is called, h being what it did.
EvaluateHandled(looked, res, h) ==
    EvaluateReturned([Log(looked, "handler", [fin |-> res.fin, args |-> res.out])
                        EXCEPT !.context = h.context],
                     h.fb)

\* evaluate: the lookup failed with res, and b is what
\* handle_any_builtin_commands returned.
EvaluateBuiltin(looked, res, content, b) ==
    IF b.some
    THEN EvaluateReturned(Log(looked, "builtin", content), b.fb)
    ELSE EvaluateReturned(looked, LookerrToEvalres(res))

\* evaluate: the match on res, which is self.mapping.lookup(&content[..])
EvaluateLooked(m, looked, content, res) ==
    IF res.err = "none"
    THEN EvaluateHandled(looked, res, Handler(res.fin, looked.context, res.out))
    ELSE EvaluateBuiltin(looked, res, content, HandleAnyBuiltinCommands(m, content))

\* evaluate, ps being what parse_subcommands returned
EvaluateParsed(m, ps) ==
    IF ~ps.ok THEN EvaluateReturned(ps.ev, FeedbackErr(ps.string))
    ELSE EvaluateLooked(m, Log(ps.ev, "lookup", ps.content), ps.content,
                        Lookup(m, ps.content))

Evaluate(m, ev, commands) ==
    EvaluateParsed(m, ParseSubcommands(m, ev, commands, 1, <<>>))

\* The tokens of the sub-command's result are pushed one by one.
PushedTokenized(content, string) ==
    content \o [k \in 1..Len(Parse(string).tokens) |-> Parse(string).tokens[k].text]

\* parse_subcommands: content.push(string), for a sub-command's result
PushedString(content, string) == Append(content, string)

\* parse_subcommands: the sub-command that is Data i returned r.
SubcommandReturned(m, cmds, i, content, r) ==
    LET after == Log([r.ev EXCEPT !.current_depth = DepthAfter(@, r)],
                     "leave", cmds[i].text)
        o == ChildOutcome(r)
    IN IF o.ok
       THEN ParseSubcommands(m, after, cmds, i + 1, PushedString(content, o.string))
       ELSE [ok |-> FALSE, ev |-> after, content |-> content, string |-> o.string]

ParseSubcommands(m, ev, cmds, i, content) ==
    IF i > Len(cmds) THEN [ok |-> TRUE, ev |-> ev, content |-> content, string |-> <<>>]
    ELSE IF cmds[i].kind = "Atom"
    THEN ParseSubcommands(m, ev, cmds, i + 1, Append(content, cmds[i].text))
    ELSE IF IsEscaped(cmds[i].text)
    THEN ParseSubcommands(m, Log(ev, "escape", cmds[i].text), cmds, i + 1,
                          Append(content, Tail(cmds[i].text)))
    ELSE IF LimitReached(ev.current_depth, ev.max_depth)
    THEN [ok |-> FALSE, ev |-> Log(ev, "limit", cmds[i].text), content |-> content,
          string |-> LimitMessage(ev.max_depth)]
    ELSE SubcommandReturned(m, cmds, i, content,
             InterpretSingle(m,
                 Log([ev EXCEPT !.current_depth = @ + 1], "enter", cmds[i].text),
                 cmds[i].text))

\* The words of the statements interpreted.
Call == <<"c", "a", "l", "l">>
Fail == <<"f", "a", "i", "l">>
Underscore == <<"_">>

\* The specs registered with the evaluator that interprets sub-commands.
CoreRegistrations ==
    {[spec |-> <<[literal |-> Call, decider |-> "ANY_STRING"]>>, fin |-> 1],
     [spec |-> <<[literal |-> Fail, decider |-> "None"]>>, fin |-> 2]}

\* The words a statement starts with, and the arguments that are no
\* sub-command: an atom, and a command that is escaped.
HeadTexts == {Call, Fail}
ArgTexts == {Underscore, <<"(", "#", "_", " ", "_", ")">>}

\* The statements that count n Data, those of their sub-commands included: a
\* word or a sub-command, then arguments that each follow a blank. A
\* sub-command that follows the first word may also touch it.
RECURSIVE CommandsOfSize(_), ArgumentsOfSize(_), StatementsOfSize(_)
CommandsOfSize(n) ==
    {<<"(">> \o st \o <<")">> : st \in StatementsOfSize(n - 1)}

ArgumentsOfSize(n) ==
    IF n = 0 THEN {<<>>}
    ELSE UNION {
           {<<" ">> \o arg \o rest :
               arg \in (IF k = 1 THEN ArgTexts ELSE {}) \cup CommandsOfSize(k),
               rest \in ArgumentsOfSize(n - k)}
           : k \in 1..n}

StatementsOfSize(n) ==
    IF n = 0 THEN {<<>>}
    ELSE UNION {
           UNION {
             {head \o rest :
                 head \in (IF k = 1 THEN HeadTexts ELSE {}) \cup CommandsOfSize(k)}
             \cup {head \o Tail(rest) :
                 head \in {h \in HeadTexts : k = 1 /\ Len(rest) > 1 /\ rest[2] = "("}}
             : rest \in ArgumentsOfSize(n - k)}
           : k \in 1..n}

\* The statements handed to interpret_single.
Statements == UNION {StatementsOfSize(n) : n \in 0..MaxItems}

\* The specs registered with the evaluator whose commands are listed.
ListItems ==
    [literal : {Call}, decider : {"None", "ANY_STRING"}]
        \cup [literal : {QuestionMark, Autocomplete}, decider : {"None"}]

ListRegistrations ==
    [spec : UNION {[1..k -> ListItems] : k \in 0..2}, fin : Handlers]

\* The statements of atoms handed to interpret_single.
BuiltinStatements ==
    {Join(tokens, <<" ">>) :
        tokens \in UNION {[1..n -> {QuestionMark, Autocomplete, Call}] : n \in 0..MaxWords}}

\* The words of statements whose sub-commands are builtin commands, which
\* answer with lists, and the statements of up to MaxWords such words.
SubWords ==
    {Call, Fail, Underscore,
     <<"(">> \o QuestionMark \o <<")">>,
     <<"(">> \o Autocomplete \o <<")">>,
     <<"(">> \o Call \o <<" ", "_", ")">>,
     <<"(", "#", "_", " ", "_", ")">>}

SubStatements ==
    {Join(words, <<" ">>) : words \in UNION {[1..n -> SubWords] : n \in 1..MaxWords}}

\* Evaluator::set_recursion_limit, before any statement is interpreted
SetRecursionLimit(limit) ==
    /\ ~result.done
    /\ max_depth' = limit
    /\ UNCHANGED <<current_depth, context, statement, result>>
    /\ UNCHANGED <<ppVars, tokVars, mapVars, multiVars, decVars, incVars>>

\* Evaluator::register, before any statement is interpreted: the spec is
\* registered in self.mapping, with the handler fin.
EvaluatorRegister(spec, fin) ==
    /\ ~result.done
    /\ LET r == Register(mapping, <<>>, spec, fin)
       IN /\ Cardinality(DOMAIN r.map) <= MaxNodes
          /\ mapping' = r.map
    /\ UNCHANGED <<prevMapping, regLog, evalVars, ppVars, tokVars, multiVars, decVars, incVars>>

\* One call of interpret_single on the evaluator. What the evaluation did is
\* recorded with the Result.
\* The context a failed statement leaves is the one it found.
ContextLeftRestored(before, r) ==
    IF r.err = "none" /\ r.fb.ok THEN r.ev.context ELSE before

\* The context after interpret_single returned r: the handlers were handed
\* &mut self.context, and nothing else assigns it.
ContextLeft(before, r) == r.ev.context

InterpretSingleCall(stmt) ==
    /\ ~result.done
    /\ \E r \in {InterpretSingle(mapping,
                    [current_depth |-> current_depth, max_depth |-> max_depth,
                     context |-> context, log |-> <<>>],
                    stmt)} :
          /\ current_depth' = r.ev.current_depth
          /\ context' = ContextLeft(context, r)
          /\ result' = [done |-> TRUE, err |-> r.err, fb |-> r.fb, log |-> r.ev.log]
    /\ statement' = stmt
    /\ UNCHANGED <<max_depth, ppVars, tokVars, mapVars, multiVars, decVars, incVars>>

----------------------------------------------------------------------------
(***************************************************************************)
(* gameshell: IncConsumer::run, with GameShell's consume, validate and     *)
(* process                                                                 *)
(*                                                                         *)
(* A byte is an ASCII character or the byte 0xFF, which occurs in no       *)
(* UTF-8 encoding. A write call on the writer is recorded with the message *)
(* written and with whether the writer accepted it.                        *)
(***************************************************************************)

\* The byte 0xFF, and the byte of a zeroed buffer.
InvalidByte == "xFF"
ZeroByte == "x00"

\* The bytes a source delivers.
StreamBytes == {"a", NL, "(", ")", InvalidByte}

\* The sources of the model, and the buffers run is called with.
Streams == UNION {[1..n -> StreamBytes] : n \in 0..MaxStream}
Buffers == {[i \in 1..n |-> ZeroByte] : n \in 0..MaxBuf}

Min(a, b) == IF a < b THEN a ELSE b

\* The messages GameShell writes when it ends the session.
BufferFullMessage == "Internal buffer is full, disconnecting"
InvalidUtf8Message == "Received invalid UTF-8 input, disconnecting"

\* Every byte range is accepted as UTF-8.
FromUtf8OkAlways(input) == TRUE

\* from_utf8(input).is_ok(), on the bytes of the model.
FromUtf8Ok(input) == \A i \in DOMAIN input : input[i] # InvalidByte

\* One write call on the writer.
Write(w, kind, data, ok) == Append(w, [kind |-> kind, data |-> data, ok |-> ok])

\* GameShell::validate
Validate(parser, input) == ParseIncrement(parser, input)

\* The validate of a consumer that answers Stop to the bytes in stops, as
\* the consumer of stop_at_validation does to every byte, and that is
\* GameShell's validate on the other bytes.
ValidateOrStop(stops, parser, input) ==
    IF input \in stops
    THEN [lparen_stack |-> parser.lparen_stack,
          has_encountered_rparen |-> parser.has_encountered_rparen, op |-> "Stop"]
    ELSE Validate(parser, input)

\* GameShell::process on valid UTF-8: r is what interpret_single returned,
\* and its Ok, Err or ParseError is written.
ProcessInterpreted(st, input, r, writer_ok) ==
    [st |-> [st EXCEPT !.current_depth = r.ev.current_depth,
                       !.context = r.ev.context,
                       !.evaluated = Append(@, input),
                       !.processed = Append(@, input),
                       !.writer = Write(@,
                                        IF r.err # "none" THEN "ParseError"
                                        ELSE IF r.fb.ok THEN "Ok" ELSE "Err",
                                        IF r.err # "none" THEN <<r.err>>
                                        ELSE r.fb.string,
                                        writer_ok)],
     op |-> IF writer_ok THEN "Continue" ELSE "Stop"]

\* GameShell::process: the session after the call and the Process returned.
\* writer_ok tells whether the writer accepts what is written to it.
Process(m, st, input, writer_ok) ==
    IF FromUtf8Ok(input)
    THEN ProcessInterpreted(st, input,
             InterpretSingle(m, [current_depth |-> st.current_depth,
                                 max_depth |-> st.max_depth,
                                 context |-> st.context, log |-> <<>>],
                             input),
             writer_ok)
    ELSE [st |-> [st EXCEPT !.processed = Append(@, input),
                            !.writer = Write(@, "DecodeError",
                                             <<InvalidUtf8Message>>, writer_ok)],
          op |-> "Stop"]

\* The buffered bytes stay where they are.
ShiftLoopNoCopy(b, idx, bg, sh) == b

\* run: for idx in shift..begin { buf[idx - shift] = buf[idx]; }
RECURSIVE ShiftLoop(_, _, _, _)
ShiftLoop(b, idx, bg, sh) ==
    IF idx >= bg THEN b
    ELSE ShiftLoop([b EXCEPT ![idx - sh + 1] = b[idx + 1]], idx + 1, bg, sh)

\* A discarded byte leaves shift where it was.
ShiftAfterDiscardKept(sh, bg) == sh

\* run: Validation::Discard => shift = begin
ShiftAfterDiscard(sh, bg) == bg

\* The buffer counts as full one byte early.
OutputIsEmptyEarly(b, bg) == bg + 1 >= Len(b)

\* consume: output.is_empty(), for output = buf[begin..]
OutputIsEmpty(b, bg) == bg = Len(b)

\* run: for ch in buf[begin..(begin + amount)].iter(), from the byte at idx
\* to the byte before stop.
RECURSIVE ValidateLoop(_, _, _, _, _)

\* run goes on after process returned Stop.
ProcessStopsNever(p) == FALSE

\* run: Process::Stop => return
ProcessStops(p) == p.op = "Stop"

\* run: the match on p, which is what process returned for the byte at idx
Processed(m, p, idx, stop, writer_ok) ==
    IF ProcessStops(p) THEN [p.st EXCEPT !.status = "process"]
    ELSE ValidateLoop(m, [p.st EXCEPT !.shift = p.st.begin], idx + 1, stop, writer_ok)

\* run: the match on v, which is what validate returned for the byte at
\* idx, s1 being the session after the call
Validated(m, s1, v, idx, stop, writer_ok) ==
    CASE v.op = "Discard" ->
           ValidateLoop(m, [s1 EXCEPT !.shift = ShiftAfterDiscard(@, s1.begin)],
                        idx + 1, stop, writer_ok)
      [] v.op = "Ready" ->
           Processed(m, Process(m, s1, SubSeq(s1.buf, s1.shift + 1, s1.begin),
                                writer_ok),
                     idx, stop, writer_ok)
      [] v.op = "Stop" -> [s1 EXCEPT !.status = "validate"]
      [] v.op = "Unready" -> ValidateLoop(m, s1, idx + 1, stop, writer_ok)

ValidateLoop(m, st, idx, stop, writer_ok) ==
    IF idx >= stop THEN st
    ELSE LET v == ValidateOrStop(st.stop_on, st.parser, st.buf[idx + 1])
         IN Validated(m, [st EXCEPT !.begin = @ + 1,
                                    !.validated = Append(@, st.buf[idx + 1]),
                                    !.parser = [lparen_stack |-> v.lparen_stack,
                                                has_encountered_rparen |->
                                                    v.has_encountered_rparen]],
                      v, idx, stop, writer_ok)

\* The bytes buffered since the last boundary are processed before run
\* returns.
AtConsumptionStopFlushes(m, st) ==
    IF st.begin > st.shift
    THEN [Process(m, st, SubSeq(st.buf, st.shift + 1, st.begin), TRUE).st
              EXCEPT !.status = "source"]
    ELSE [st EXCEPT !.status = "source"]

\* run: Consumption::Stop => return
AtConsumptionStop(m, st) == [st EXCEPT !.status = "source"]

\* The session at the top of run's loop, after the buffered bytes were
\* shifted to the start of the buffer.
Shifted ==
    [buf |-> ShiftLoop(buf, shift, begin, shift), begin |-> begin - shift,
     shift |-> 0,
     parser |-> [lparen_stack |-> lparen_stack,
                 has_encountered_rparen |-> has_encountered_rparen],
     current_depth |-> current_depth, max_depth |-> max_depth,
     context |-> context, processed |-> processed, evaluated |-> evaluated,
     writer |-> writer, status |-> status, validated |-> validated,
     stop_on |-> stop_on]

\* The session becomes st.
Becomes(st) ==
    /\ buf' = st.buf
    /\ begin' = st.begin
    /\ shift' = st.shift
    /\ lparen_stack' = st.parser.lparen_stack
    /\ has_encountered_rparen' = st.parser.has_encountered_rparen
    /\ current_depth' = st.current_depth
    /\ context' = st.context
    /\ processed' = st.processed
    /\ evaluated' = st.evaluated
    /\ writer' = st.writer
    /\ status' = st.status
    /\ validated' = st.validated
    /\ UNCHANGED <<stop_on, hist, max_depth, statement, result, tokVars, mapVars,
                   multiVars, decVars>>

\* The first byte read is passed over.
ChunkStartAfterFirst(bg) == bg + 1

\* run: the first index of buf[begin..(begin + amount)]
ChunkStart(bg) == bg

\* One turn of run's loop in which the source delivers amount bytes: they
\* are read into the free part of the buffer and validated one by one.
RunConsumed(amount, writer_ok) ==
    /\ status = "running"
    /\ ~OutputIsEmpty(Shifted.buf, Shifted.begin)
    /\ amount \in 1..Min(Len(buf) - Shifted.begin, Len(reader))
    /\ LET chunk == SubSeq(reader, 1, amount)
           from == Shifted.begin
           filled == [i \in 1..Len(buf) |->
                         IF i > from /\ i <= from + amount
                         THEN chunk[i - from] ELSE Shifted.buf[i]]
       IN /\ Becomes(ValidateLoop(mapping, [Shifted EXCEPT !.buf = filled],
                                  ChunkStart(from), from + amount, writer_ok))
          /\ reader' = SubSeq(reader, amount + 1, Len(reader))
          /\ arrived' = arrived \o chunk

\* One turn of run's loop in which the read returns Ok(0), the source being
\* exhausted, or Err.
RunSourceStops(read) ==
    /\ status = "running"
    /\ ~OutputIsEmpty(Shifted.buf, Shifted.begin)
    /\ read = "Ok(0)" => reader = <<>>
    /\ Becomes(AtConsumptionStop(mapping, Shifted))
    /\ UNCHANGED <<reader, arrived>>

\* One turn of run's loop in which consume finds no room in the buffer.
RunBufferFull(writer_ok) ==
    /\ status = "running"
    /\ OutputIsEmpty(Shifted.buf, Shifted.begin)
    /\ Becomes([Shifted EXCEPT !.writer = Write(@, "DecodeError",
                                                <<BufferFullMessage>>, writer_ok),
                               !.status = "full"])
    /\ UNCHANGED <<reader, arrived>>

----------------------------------------------------------------------------
(***************************************************************************)
(* Idle values of the components a specification does not exercise.        *)
(***************************************************************************)
NotParsed == [done |-> FALSE, err |-> "none", tokens |-> <<>>]

ppIdle ==
    /\ lparen_stack = PartialParseDefault.lparen_stack
    /\ has_encountered_rparen = PartialParseDefault.has_encountered_rparen
    /\ hist = <<>>

tokIdle ==
    /\ line = <<>>
    /\ parsed = NotParsed

mapIdle ==
    /\ mapping = NewMapping("None")
    /\ prevMapping = NewMapping("None")
    /\ regLog = <<>>

NotInterpreted == [done |-> FALSE, err |-> "none", stmts |-> <<>>, result |-> 0]

multiIdle ==
    /\ code = <<>>
    /\ interpreted = NotInterpreted

NotDecided == [done |-> FALSE, decider |-> "None", d |-> Accept(0, <<>>)]

decIdle ==
    /\ decInput = <<>>
    /\ decision = NotDecided

\* A session that is over before it read a byte.
incIdle ==
    /\ reader = <<>>
    /\ arrived = <<>>
    /\ buf = <<>>
    /\ begin = 0
    /\ shift = 0
    /\ processed = <<>>
    /\ evaluated = <<>>
    /\ writer = <<>>
    /\ status = "idle"
    /\ validated = <<>>
    /\ stop_on = {}

NotEvaluated == [done |-> FALSE, err |-> "none", fb |-> FeedbackOk(<<>>), log |-> <<>>]

\* Evaluator::new, less its mapping
evalIdle ==
    /\ current_depth = 0
    /\ max_depth = DefaultMaxDepth
    /\ context = 0
    /\ statement = <<>>
    /\ result = NotEvaluated

----------------------------------------------------------------------------
(***************************************************************************)
(* Specifications                                                          *)
(***************************************************************************)

\* A session's PartialParse, fed byte by byte.
InitPP == ppIdle /\ tokIdle /\ mapIdle /\ multiIdle /\ evalIdle /\ decIdle /\ incIdle
NextPP == \E input \in Bytes : Feed(input)
SpecPP == InitPP /\ [][NextPP]_vars

\* parse, on every line of the model.
InitParse == ppIdle /\ mapIdle /\ multiIdle /\ evalIdle /\ decIdle /\ incIdle /\ line \in Lines /\ parsed = NotParsed
NextParse == DoParse
SpecParse == InitParse /\ [][NextParse]_vars

\* A matching tree under registration.
InitMap == ppIdle /\ tokIdle /\ mapIdle /\ multiIdle /\ evalIdle /\ decIdle /\ incIdle
NextMap ==
    \E spec \in SpecPaths(MaxRegSteps - RegSteps(regLog) - 1) : RegisterCall(spec)
SpecMap == InitMap /\ [][NextMap]_vars

\* interpret_multiple, on every code of the model.
InitMulti ==
    ppIdle /\ tokIdle /\ mapIdle /\ evalIdle /\ decIdle /\ incIdle /\ code \in Lines /\ interpreted = NotInterpreted
NextMulti == DoInterpretMultiple
SpecMulti == InitMulti /\ [][NextMulti]_vars

\* A matching tree under register_many.
InitMany == ppIdle /\ tokIdle /\ mapIdle /\ multiIdle /\ evalIdle /\ decIdle /\ incIdle
NextMany ==
    \E specs \in Batches(MaxRegSteps - ManySteps(regLog)) : RegisterManyCall(specs)
SpecMany == InitMany /\ [][NextMany]_vars

\* A matching tree whose validators are ANY_I32, built by register calls.
InitDeny == ppIdle /\ tokIdle /\ mapIdle /\ multiIdle /\ evalIdle /\ decIdle /\ incIdle
NextDeny ==
    \E spec \in DenyPaths(MaxRegSteps - RegSteps(regLog) - 1) : RegisterCall(spec)
SpecDeny == InitDeny /\ [][NextDeny]_vars

\* A decider function of predicates.rs, called on some tokens.
InitDecide ==
    /\ ppIdle /\ tokIdle /\ mapIdle /\ multiIdle /\ evalIdle /\ incIdle
    /\ decInput \in DecInputs
    /\ decision = NotDecided
NextDecide == \E decider \in Predicates : DoDecide(decider)
SpecDecide == InitDecide /\ [][NextDecide]_vars

\* An evaluator with the commands call (one string argument, handler 1) and
\* fail (no argument, handler 2), interpreting a statement with
\* sub-commands.
InitEval == ppIdle /\ tokIdle /\ mapIdle /\ multiIdle /\ evalIdle /\ decIdle /\ incIdle
NextEval ==
    \/ \E reg \in CoreRegistrations : EvaluatorRegister(reg.spec, reg.fin)
    \/ \E limit \in 0..MaxLimit : SetRecursionLimit(limit)
    \/ \E stmt \in Statements : InterpretSingleCall(stmt)
SpecEval == InitEval /\ [][NextEval]_vars

\* An evaluator with commands of the user's, the names of the builtin
\* commands among them, interpreting a statement of atoms.
InitList == ppIdle /\ tokIdle /\ mapIdle /\ multiIdle /\ evalIdle /\ decIdle /\ incIdle
NextList ==
    \/ \E reg \in ListRegistrations : EvaluatorRegister(reg.spec, reg.fin)
    \/ \E stmt \in BuiltinStatements : InterpretSingleCall(stmt)
SpecList == InitList /\ [][NextList]_vars

\* An evaluator with the commands call and fail, interpreting a statement
\* whose sub-commands are builtin commands or call.
InitSub == ppIdle /\ tokIdle /\ mapIdle /\ multiIdle /\ evalIdle /\ decIdle /\ incIdle
NextSub ==
    \/ \E reg \in CoreRegistrations : EvaluatorRegister(reg.spec, reg.fin)
    \/ \E stmt \in SubStatements : InterpretSingleCall(stmt)
SpecSub == InitSub /\ [][NextSub]_vars

\* The command of a session: the literal a with handler 1.
SessionMapping ==
    Register(NewMapping("None"), <<>>,
             <<[literal |-> <<"a">>, decider |-> "None"]>>, 1).map

\* A GameShell with a new PartialParse and a new Evaluator that knows one
\* command, and run called on a zeroed buffer: every source of the model,
\* delivered in reads of every size that fits the buffer.
InitInc ==
    /\ ppIdle /\ tokIdle /\ multiIdle /\ evalIdle /\ decIdle
    /\ mapping = SessionMapping
    /\ prevMapping = NewMapping("None")
    /\ regLog = <<>>
    /\ reader \in Streams
    /\ arrived = <<>>
    /\ buf \in Buffers
    /\ begin = 0
    /\ shift = 0
    /\ processed = <<>>
    /\ evaluated = <<>>
    /\ writer = <<>>
    /\ status = "running"
    /\ validated = <<>>
    /\ stop_on = {}
NextInc ==
    \/ \E amount \in 1..MaxBuf, writer_ok \in BOOLEAN : RunConsumed(amount, writer_ok)
    \/ \E read \in {"Ok(0)", "Err"} : RunSourceStops(read)
    \/ \E writer_ok \in BOOLEAN : RunBufferFull(writer_ok)
SpecInc == InitInc /\ [][NextInc]_vars

\* run on a consumer that is a GameShell but for its validate, which
\* answers Stop to the byte a.
InitStop ==
    /\ ppIdle /\ tokIdle /\ multiIdle /\ evalIdle /\ decIdle
    /\ mapping = SessionMapping
    /\ prevMapping = NewMapping("None")
    /\ regLog = <<>>
    /\ reader \in Streams
    /\ arrived = <<>>
    /\ buf \in Buffers
    /\ begin = 0
    /\ shift = 0
    /\ processed = <<>>
    /\ evaluated = <<>>
    /\ writer = <<>>
    /\ status = "running"
    /\ validated = <<>>
    /\ stop_on = {"a"}
NextStop == NextInc
SpecStop == InitStop /\ [][NextStop]_vars

----------------------------------------------------------------------------
(***************************************************************************)
(* Properties of PartialParse (under SpecPP)                               *)
(***************************************************************************)

\* The call is a newline fed at depth 0.
IsBoundary(h) == h.byte = NL /\ h.depth0 = 0

\* C1: parse_increment returns Ready exactly when the byte is a newline and
\* the depth is 0 (so a newline at depth > 0 never returns Ready); '('
\* increments the depth and ')' at depth > 0 decrements it; every byte that
\* is not a depth-0 newline returns Unready with the discard flag clear or
\* Discard with the discard flag set.
C1_ReadyIffNewlineAtDepth0 ==
    \A i \in 1..Len(hist) :
        LET h == hist[i]
        IN /\ (h.op = "Ready") <=> IsBoundary(h)
           /\ h.byte = "(" => h.depth1 = h.depth0 + 1
           /\ (h.byte = ")" /\ h.depth0 > 0) => h.depth1 = h.depth0 - 1
           /\ ~IsBoundary(h) =>
                 \/ h.op = "Unready" /\ ~h.flag1
                 \/ h.op = "Discard" /\ h.flag1

\* C1 witness: a newline was fed inside parentheses and did not return
\* Ready, and a later newline at depth 0 did.
C1_Witness ==
    \E i, j \in 1..Len(hist) :
        /\ i < j
        /\ hist[i].byte = NL /\ hist[i].depth0 > 0 /\ hist[i].op = "Unready"
        /\ hist[j].byte = NL /\ hist[j].depth0 = 0 /\ hist[j].op = "Ready"

\* The bytes fed after call i, in order.
BytesAfter(i) == [k \in 1..(Len(hist) - i) |-> hist[i + k].byte]

\* The values returned after call i, in order.
OpsAfter(i) == [k \in 1..(Len(hist) - i) |-> hist[i + k].op]

\* C2: after a Discard returned for a ')' at depth 0, every following byte
\* returns Discard (parentheses and the newlines nested in them included)
\* up to the next newline at depth 0, which returns Ready and leaves the
\* parser in its initial state: the bytes after it get the values a fresh
\* parser returns for them.
C2_DiscardUntilBoundary ==
    \A i \in 1..Len(hist) :
        (hist[i].byte = ")" /\ hist[i].depth0 = 0 /\ hist[i].op = "Discard") =>
            \A j \in (i + 1)..Len(hist) :
                (\A k \in (i + 1)..(j - 1) : ~IsBoundary(hist[k])) =>
                    IF IsBoundary(hist[j])
                    THEN /\ hist[j].op = "Ready"
                         /\ hist[j].depth1 = PartialParseDefault.lparen_stack
                         /\ hist[j].flag1 = PartialParseDefault.has_encountered_rparen
                         /\ OpsAfter(j) = RunOps(PartialParseDefault, BytesAfter(j))
                    ELSE hist[j].op = "Discard"

\* C2 witness: a ')' at depth 0, then a newline inside parentheses opened
\* during the discarded statement, then the depth-0 newline, then a byte of
\* the next statement, which returns Unready.
C2_Witness ==
    \E i, n, j \in 1..Len(hist) :
        /\ i < n /\ n < j /\ j < Len(hist)
        /\ hist[i].byte = ")" /\ hist[i].depth0 = 0
        /\ \A k \in (i + 1)..(j - 1) : hist[k].op = "Discard"
        /\ hist[n].byte = NL /\ hist[n].depth0 > 0
        /\ hist[j].op = "Ready"
        /\ hist[j + 1].op = "Unready"

----------------------------------------------------------------------------
(***************************************************************************)
(* Properties of parse (under SpecParse)                                   *)
(***************************************************************************)

\* How many of the first k characters of ln are c.
Count(ln, k, c) == Cardinality({i \in 1..k : ln[i] = c})

\* Some ')' of ln closes nothing.
HasPrematureRight(ln) ==
    \E k \in 1..Len(ln) : Count(ln, k, ")") > Count(ln, k, "(")

\* Some '(' of ln is left open, and no ')' closes nothing.
HasDanglingLeft(ln) ==
    /\ ~HasPrematureRight(ln)
    /\ Count(ln, Len(ln), "(") > Count(ln, Len(ln), ")")

\* The parentheses of ln are balanced.
Balanced(ln) == ~HasPrematureRight(ln) /\ ~HasDanglingLeft(ln)

Extent(t) ==
    IF t.kind = "Atom" THEN (t.start + 1)..t.stop ELSE t.start..(t.stop + 1)

\* The depth of parentheses before character i of ln.
DepthBefore(ln, i) == Count(ln, i - 1, "(") - Count(ln, i - 1, ")")

\* Character i of ln is part of an atom: neither whitespace nor a
\* parenthesis, and at depth 0.
IsAtomChar(ln, i) ==
    /\ i \in 1..Len(ln)
    /\ ~IsWhitespace(ln[i]) /\ ln[i] \notin {"(", ")"}
    /\ DepthBefore(ln, i) = 0

\* C4: on a line with balanced parentheses the tokens of parse, in order,
\* cover every non-whitespace character exactly once: each maximal run of
\* atom characters is one Atom, each outermost pair of parentheses is one
\* Command holding its inner text, and only whitespace lies between the
\* tokens, so that the token spans with the stripped parentheses and
\* whitespace reinserted are the line.
C4_TokensCoverLine ==
    (parsed.done /\ Balanced(line)) =>
        LET ts == parsed.tokens
        IN /\ \A n \in 1..Len(ts) : ts[n].text = Slice(line, ts[n].start, ts[n].stop)
           /\ \A n \in 1..Len(ts) : Extent(ts[n]) \subseteq 1..Len(line)
           /\ \A n \in 1..(Len(ts) - 1) :
                 \A x \in Extent(ts[n]), y \in Extent(ts[n + 1]) : x < y
           /\ \A i \in 1..Len(line) :
                 ~IsWhitespace(line[i]) => \E n \in 1..Len(ts) : i \in Extent(ts[n])
           /\ \A n \in 1..Len(ts) :
                 IF ts[n].kind = "Atom"
                 THEN /\ ts[n].start < ts[n].stop
                      /\ \A i \in Extent(ts[n]) : IsAtomChar(line, i)
                      /\ ~IsAtomChar(line, ts[n].start)
                      /\ ~IsAtomChar(line, ts[n].stop + 1)
                 ELSE /\ line[ts[n].start] = "(" /\ DepthBefore(line, ts[n].start) = 0
                      /\ line[ts[n].stop + 1] = ")"
                      /\ DepthBefore(line, ts[n].stop + 2) = 0
                      /\ \A i \in (ts[n].start + 1)..ts[n].stop :
                            DepthBefore(line, i) > 0

\* C29: in parse, a '(' at depth 0 that directly follows an atom character
\* first flushes the pending atom: the tokens hold the Atom that ends at
\* the parenthesis, and right after it the Command that starts there, as
\* in "ab(c)", parsed to Atom("ab"), Command("c").
C29_AtomFlushedBeforeCommand ==
    (parsed.done /\ parsed.err = "none") =>
        \A i \in 2..Len(line) :
            (line[i] = "(" /\ DepthBefore(line, i) = 0 /\ IsAtomChar(line, i - 1)) =>
                \E n \in 1..(Len(parsed.tokens) - 1) :
                    /\ parsed.tokens[n].kind = "Atom"
                    /\ parsed.tokens[n].stop = i - 1
                    /\ parsed.tokens[n + 1].kind = "Command"
                    /\ parsed.tokens[n + 1].start = i

----------------------------------------------------------------------------
(***************************************************************************)
(* Properties of Mapping (under SpecMap)                                   *)
(***************************************************************************)

\* The last register call.
Last == regLog[Len(regLog)]

\* The first k literals of a spec.
LitPath(spec, k) == [i \in 1..k |-> spec[i].literal]

\* The literals of a spec.
Lits(spec) == LitPath(spec, Len(spec))

\* The spec supplies a decider for a literal whose node is in tree m.
SuppliesDeciderAtNode(m, spec) ==
    \E k \in 1..Len(spec) :
        LitPath(spec, k) \in DOMAIN m /\ spec[k].decider # "None"

\* The spec supplies no decider for a literal whose node in m has one.
PassesDeciderWithNone(m, spec) ==
    \E k \in 1..Len(spec) :
        /\ LitPath(spec, k) \in DOMAIN m
        /\ m[LitPath(spec, k)].decider # "None"
        /\ spec[k].decider = "None"

\* The spec's path ends at a node of m that has a finalizer.
EndsAtFinalizer(m, spec) ==
    Lits(spec) \in DOMAIN m /\ m[Lits(spec)].finalizer # 0

\* C5: register of a spec that supplies a validator for a literal whose
\* node already exists under the same parent fails with
\* DeciderAlreadyExists, whether the node has no validator, the same
\* validator or another one.
C5_DeciderAlreadyExists ==
    (regLog # <<>> /\ SuppliesDeciderAtNode(prevMapping, Last.spec)) =>
        Last.err = "DeciderAlreadyExists"

\* C5 witness: the last register call supplied, for a node that has a
\* validator, the same validator, and failed with DeciderAlreadyExists.
C5_Witness ==
    /\ regLog # <<>>
    /\ Last.err = "DeciderAlreadyExists"
    /\ \E k \in 1..Len(Last.spec) :
          /\ LitPath(Last.spec, k) \in DOMAIN prevMapping
          /\ Last.spec[k].decider # "None"
          /\ prevMapping[LitPath(Last.spec, k)].decider = Last.spec[k].decider

\* No register call changes the validator of a node that exists.
DecidersKept ==
    \A p \in DOMAIN prevMapping :
        p \in DOMAIN mapping /\ mapping[p].decider = prevMapping[p].decider

\* C6 as stated: a node's validator never changes after the registration
\* that created the node, and a later registration that passes through a
\* node that has a validator while supplying none for that literal is
\* rejected.
C6_PassingWithNoneRejected ==
    regLog # <<>> =>
        /\ DecidersKept
        /\ PassesDeciderWithNone(prevMapping, Last.spec) => Last.err # "none"

\* C6, amended: a node's validator never changes after the registration
\* that created the node, and a registration is rejected exactly when it
\* supplies a validator for a literal whose node exists
\* (DeciderAlreadyExists) or else its path ends at a node that has a
\* handler (FinalizerAlreadyExists); passing through a node that has a
\* validator while supplying none is accepted and keeps the validator.
C6_ValidatorFixed ==
    regLog # <<>> =>
        /\ DecidersKept
        /\ Last.err =
             IF SuppliesDeciderAtNode(prevMapping, Last.spec)
             THEN "DeciderAlreadyExists"
             ELSE IF EndsAtFinalizer(prevMapping, Last.spec)
             THEN "FinalizerAlreadyExists"
             ELSE "none"
        /\ Last.err = "none" =>
             \A k \in 1..Len(Last.spec) :
                 /\ LitPath(Last.spec, k) \in DOMAIN mapping
                 /\ LitPath(Last.spec, k) \notin DOMAIN prevMapping =>
                       mapping[LitPath(Last.spec, k)].decider = Last.spec[k].decider

\* C6 witness: the last register call passed through a node that has a
\* validator while supplying none for its literal, and succeeded.
C6_Witness ==
    /\ regLog # <<>>
    /\ PassesDeciderWithNone(prevMapping, Last.spec)
    /\ Last.err = "none"
    /\ mapping # prevMapping

\* C7 as stated: register of a spec whose full literal path ends at a node
\* that already has a handler fails with FinalizerAlreadyExists, and the
\* handler bound to that path stays bound.
C7_FinalizerAlreadyExists ==
    (regLog # <<>> /\ EndsAtFinalizer(prevMapping, Last.spec)) =>
        /\ Last.err = "FinalizerAlreadyExists"
        /\ mapping[Lits(Last.spec)].finalizer = prevMapping[Lits(Last.spec)].finalizer

\* C7, amended: register of a spec whose full literal path ends at a node
\* that already has a handler fails, with FinalizerAlreadyExists when the
\* spec supplies no validator and with DeciderAlreadyExists when it
\* supplies one, and the handler bound to that path stays bound.
C7_FailsAndHandlerStays ==
    (regLog # <<>> /\ EndsAtFinalizer(prevMapping, Last.spec)) =>
        /\ Last.err =
             IF \E k \in 1..Len(Last.spec) : Last.spec[k].decider # "None"
             THEN "DeciderAlreadyExists"
             ELSE "FinalizerAlreadyExists"
        /\ mapping[Lits(Last.spec)].finalizer = prevMapping[Lits(Last.spec)].finalizer
        /\ mapping[Lits(Last.spec)].finalizer # Last.fin

\* C7 witness: the last register call ended at a node, below the root, that
\* had a handler, and failed with FinalizerAlreadyExists.
C7_Witness ==
    /\ regLog # <<>>
    /\ Last.spec # <<>>
    /\ EndsAtFinalizer(prevMapping, Last.spec)
    /\ Last.err = "FinalizerAlreadyExists"

\* C8: a register call that returns DeciderAlreadyExists or
\* FinalizerAlreadyExists leaves the whole tree unchanged: no node is
\* created, no validator or handler is set (so every lookup returns what it
\* returned before).
C8_FailedRegisterChangesNothing ==
    (regLog # <<>> /\ Last.err # "none") => mapping = prevMapping

\* C8 witness: the last register call failed on a path whose prefix exists
\* and whose suffix would have created nodes.
C8_Witness ==
    /\ regLog # <<>>
    /\ Last.err # "none"
    /\ Lits(Last.spec) \notin DOMAIN prevMapping
    /\ LitPath(Last.spec, 1) \in DOMAIN prevMapping

\* p is a proper prefix of q.
IsProperPrefix(p, q) == Len(p) < Len(q) /\ SubSeq(q, 1, Len(p)) = p

\* The spec supplies no validator.
NoDeciders(spec) == \A k \in 1..Len(spec) : spec[k].decider = "None"

\* Exactly two register calls were made, on specs of which one's literal
\* path ends at a node the other's continues through.
TwoSharingPrefix ==
    /\ Len(regLog) = 2
    /\ \/ IsProperPrefix(Lits(regLog[1].spec), Lits(regLog[2].spec))
       \/ IsProperPrefix(Lits(regLog[2].spec), Lits(regLog[1].spec))

\* Of the two, the call on the spec with the shorter path.
ShortReg ==
    IF Len(regLog[1].spec) < Len(regLog[2].spec) THEN regLog[1] ELSE regLog[2]

\* Of the two, the call on the spec with the longer path.
LongReg ==
    IF Len(regLog[1].spec) < Len(regLog[2].spec) THEN regLog[2] ELSE regLog[1]

\* Both register calls succeeded.
BothRegistered == regLog[1].err = "none" /\ regLog[2].err = "none"

\* Lookup of the short path returns the short spec's handler, lookup of the
\* long path the long spec's handler, and lookup of the long path and one
\* more token fails with UnknownMapping of that token.
BothResolvable ==
    /\ LET r == Lookup(mapping, Lits(ShortReg.spec))
       IN r.err = "none" /\ r.fin = ShortReg.fin /\ r.out = <<>>
    /\ LET r == Lookup(mapping, Lits(LongReg.spec))
       IN r.err = "none" /\ r.fin = LongReg.fin /\ r.out = <<>>
    /\ \A t \in Literals :
          LET r == Lookup(mapping, Append(Lits(LongReg.spec), t))
          IN r.err = "UnknownMapping" /\ r.tok = t

\* Neither spec supplies a validator for a literal of the shared prefix.
NoDeciderOnSharedPrefix ==
    \A k \in 1..Len(ShortReg.spec) :
        ShortReg.spec[k].decider = "None" /\ LongReg.spec[k].decider = "None"

\* C9 as stated: two specs sharing a literal prefix, one ending at a node
\* the other continues through, can be registered in either order by
\* separate register calls, and afterwards both paths resolve to their own
\* handlers and the long path with one more token is an UnknownMapping (the
\* lookups are taken of specs without validators, whose paths are their
\* literals).
C9_SharedPrefixAnySpecs ==
    TwoSharingPrefix =>
        /\ BothRegistered
        /\ (NoDeciders(regLog[1].spec) /\ NoDeciders(regLog[2].spec)) => BothResolvable

\* C9, amended: two such specs can be registered in either order provided
\* neither supplies a validator for a literal of the shared prefix, and
\* afterwards, for specs without validators, both paths resolve to their own
\* handlers and the long path with one more token is an UnknownMapping.
C9_SharedPrefixEitherOrder ==
    (TwoSharingPrefix /\ NoDeciderOnSharedPrefix) =>
        /\ BothRegistered
        /\ (NoDeciders(regLog[1].spec) /\ NoDeciders(regLog[2].spec)) => BothResolvable

\* C9 witness: the long spec was registered first and the short one, below
\* the root, second; both without validators; both calls succeeded.
C9_Witness ==
    /\ TwoSharingPrefix
    /\ NoDeciders(regLog[1].spec) /\ NoDeciders(regLog[2].spec)
    /\ regLog[2].spec # <<>>
    /\ IsProperPrefix(Lits(regLog[2].spec), Lits(regLog[1].spec))
    /\ BothRegistered

\* Where lookup's traversal of input ends in tree m, from node `at` with
\* token i the next one: at a token the node has no child for ("nochild"),
\* at the end of the input ("end"), or in a validator ("denied", "toofar").
RECURSIVE Walk(_, _, _, _)
Walk(m, input, at, i) ==
    IF i > Len(input) THEN [kind |-> "end", at |-> at, i |-> i]
    ELSE IF Append(at, input[i]) \notin DOMAIN m
    THEN [kind |-> "nochild", at |-> at, i |-> i]
    ELSE IF m[Append(at, input[i])].decider = "None"
    THEN Walk(m, input, Append(at, input[i]), i + 1)
    ELSE LET d == Decide(m[Append(at, input[i])].decider,
                         SubSeq(input, i + 1, Len(input)))
         IN IF ~d.accept THEN [kind |-> "denied", at |-> at, i |-> i]
            ELSE IF i + d.n > Len(input) THEN [kind |-> "toofar", at |-> at, i |-> i]
            ELSE Walk(m, input, Append(at, input[i]), i + 1 + d.n)

\* No node of m has a validator.
NoDecidersIn(m) == \A p \in DOMAIN m : m[p].decider = "None"

\* The longest prefix of input that is the path of a node of m.
LongestNode(m, input) ==
    CHOOSE k \in 0..Len(input) :
        /\ SubSeq(input, 1, k) \in DOMAIN m
        /\ \A j \in (k + 1)..Len(input) : SubSeq(input, 1, j) \notin DOMAIN m

\* What a lookup result says of the traversal: the handler found, the token
\* no node was found for, the missing handler, or a validator's refusal.
Outcome(r) ==
    CASE r.err = "none" -> [kind |-> "found", tok |-> "", fin |-> r.fin]
      [] r.err = "UnknownMapping" -> [kind |-> "unknown", tok |-> r.tok, fin |-> 0]
      [] r.err = "FinalizerDoesNotExist" -> [kind |-> "nofinalizer", tok |-> "", fin |-> 0]
      [] OTHER -> [kind |-> "validator", tok |-> "", fin |-> 0]

\* The outcome the traversal of input in m calls for.
TraversalOutcome(m, input) ==
    LET w == Walk(m, input, <<>>, 1)
    IN CASE w.kind = "nochild" -> [kind |-> "unknown", tok |-> input[w.i], fin |-> 0]
         [] w.kind = "end" /\ m[w.at].finalizer = 0 ->
                [kind |-> "nofinalizer", tok |-> "", fin |-> 0]
         [] w.kind = "end" /\ m[w.at].finalizer # 0 ->
                [kind |-> "found", tok |-> "", fin |-> m[w.at].finalizer]
         [] OTHER -> [kind |-> "validator", tok |-> "", fin |-> 0]

\* The outcome for input in a tree m without validators, where the nodes
\* visited are the prefixes of the input.
PrefixOutcome(m, input) ==
    LET k == LongestNode(m, input)
    IN IF k < Len(input) THEN [kind |-> "unknown", tok |-> input[k + 1], fin |-> 0]
       ELSE IF m[input].finalizer = 0 THEN [kind |-> "nofinalizer", tok |-> "", fin |-> 0]
       ELSE [kind |-> "found", tok |-> "", fin |-> m[input].finalizer]

\* C10: lookup fails with UnknownMapping(t) for the first token t, in
\* traversal order, that the current node has no child for, and with
\* FinalizerDoesNotExist when the tokens are exhausted at a node without a
\* handler; on an empty tree every non-empty input yields
\* UnknownMapping(first token) and the empty input FinalizerDoesNotExist.
C10_LookupFailures ==
    \A input \in Inputs : \A o \in {Outcome(Lookup(mapping, input))} :
        /\ o = TraversalOutcome(mapping, input)
        /\ NoDecidersIn(mapping) => o = PrefixOutcome(mapping, input)
        /\ mapping = NewMapping("None") =>
              o = IF input = <<>> THEN [kind |-> "nofinalizer", tok |-> "", fin |-> 0]
                  ELSE [kind |-> "unknown", tok |-> input[1], fin |-> 0]

\* C10 witness: in a tree with a validator, one lookup fails with
\* UnknownMapping of a token that is not its first, after the validator
\* took a token, and another is exhausted at a node, below the root, that
\* has no handler.
C10_Witness ==
    /\ \E input \in Inputs :
          LET r == Lookup(mapping, input)
              w == Walk(mapping, input, <<>>, 1)
          IN /\ r.err = "UnknownMapping" /\ w.i > Len(w.at) + 1
             /\ r.tok # input[1]
    /\ \E input \in Inputs :
          /\ input # <<>>
          /\ Lookup(mapping, input).err = "FinalizerDoesNotExist"

\* The inputs looked up at node `at` of tree m whose first token is the
\* literal of a child that has a validator, accepting them.
AcceptedAt(m, at) ==
    {input \in Inputs \ {<<>>} :
        /\ Append(at, input[1]) \in DOMAIN m
        /\ m[Append(at, input[1])].decider # "None"
        /\ Decide(m[Append(at, input[1])].decider, Tail(input)).accept}

\* C11: when a node's validator returns Accept(k) during lookup, the
\* lookup goes on at that node with the tokens after the k accepted ones
\* iff k is at most the number of tokens after the literal (with k equal to
\* it the input ends at that node: its handler, or FinalizerDoesNotExist),
\* and fails with DeciderAdvancedTooFar, returning no handler, if k is
\* larger.
C11_AdvanceWithinInput ==
    \A at \in DOMAIN mapping : \A input \in AcceptedAt(mapping, at) :
        LET child == Append(at, input[1])
            d == Decide(mapping[child].decider, Tail(input))
            remaining == Len(input) - 1
        IN \A r \in {LookupInternal(mapping, at, input, <<>>)} :
           IF d.n > remaining
           THEN r.err = "DeciderAdvancedTooFar" /\ r.fin = 0
           ELSE \A s \in {LookupInternal(mapping, child,
                             SubSeq(input, 2 + d.n, Len(input)), <<>>)} :
                   /\ r.err = s.err /\ r.fin = s.fin /\ r.tok = s.tok
                   /\ r.desc = s.desc /\ r.reason = s.reason
                   /\ r.err = "none" =>
                         r.out = d.push \o s.out /\ r.advance = d.n + s.advance
                   /\ d.n = remaining =>
                         /\ r.fin = mapping[child].finalizer
                         /\ r.err = IF r.fin # 0 THEN "none" ELSE "FinalizerDoesNotExist"

\* C11 witness: below the root, one lookup fails with DeciderAdvancedTooFar
\* where the validator accepted two tokens of one, and another returns the
\* node's handler where it accepted two of two.
C11_Witness ==
    \E at \in DOMAIN mapping \ {<<>>} :
        /\ \E input \in AcceptedAt(mapping, at) :
              /\ Len(input) = 2
              /\ LookupInternal(mapping, at, input, <<>>).err = "DeciderAdvancedTooFar"
              /\ Lookup(mapping, at \o input).err = "DeciderAdvancedTooFar"
        /\ \E input \in AcceptedAt(mapping, at) :
              /\ Len(input) = 3
              /\ Decide(mapping[Append(at, input[1])].decider, Tail(input)).n = 2
              /\ LookupInternal(mapping, at, input, <<>>).err = "none"

\* Whether lookup's traversal of input in tree m, from node `at` with token
\* i the next one, comes to the last token of the input as a literal to
\* look up, and at which node.
RECURSIVE WalkToLast(_, _, _, _)
WalkToLast(m, input, at, i) ==
    IF i >= Len(input) THEN [reached |-> i = Len(input), at |-> at]
    ELSE IF Append(at, input[i]) \notin DOMAIN m THEN [reached |-> FALSE, at |-> at]
    ELSE IF m[Append(at, input[i])].decider = "None"
    THEN WalkToLast(m, input, Append(at, input[i]), i + 1)
    ELSE LET d == Decide(m[Append(at, input[i])].decider,
                         SubSeq(input, i + 1, Len(input)))
         IN IF ~d.accept \/ i + d.n > Len(input) THEN [reached |-> FALSE, at |-> at]
            ELSE WalkToLast(m, input, Append(at, input[i]), i + 1 + d.n)

\* partial_lookup of input in m stops at a validator: exactly one token is
\* left at a node whose child for that token has a validator.
StopsAtDecider(m, input) ==
    LET f == WalkToLast(m, input, <<>>, 1)
    IN /\ f.reached
       /\ Append(f.at, input[Len(input)]) \in DOMAIN m
       /\ m[Append(f.at, input[Len(input)])].decider # "None"

\* C12: partial_lookup returns the node reached when the input is
\* exhausted (the root for the empty input), whose direct children can be
\* enumerated; when exactly one token is left and the child for it has a
\* validator, it returns the validator's description without invoking the
\* validator; otherwise it runs the validators and descends as lookup does,
\* failing with lookup's UnknownMapping, DeciderDenied or
\* DeciderAdvancedTooFar.
C12_PartialLookup ==
    /\ PartialLookup(mapping, <<>>).kind = "map"
    /\ PartialLookup(mapping, <<>>).node = <<>>
    /\ \A input \in Inputs :
          \A p \in {PartialLookup(mapping, input)} :
          \A l \in {Lookup(mapping, input)} :
          \A w \in {Walk(mapping, input, <<>>, 1)} :
             IF StopsAtDecider(mapping, input)
             THEN LET f == WalkToLast(mapping, input, <<>>, 1)
                  IN /\ p.kind = "desc" /\ p.err = "none"
                     /\ p.desc = Description(
                            mapping[Append(f.at, input[Len(input)])].decider)
             ELSE IF l.err \in {"UnknownMapping", "DeciderDenied", "DeciderAdvancedTooFar"}
             THEN /\ p.kind = "err" /\ p.err = l.err /\ p.tok = l.tok
                  /\ p.desc = l.desc /\ p.reason = l.reason
             ELSE /\ p.kind = "map" /\ p.err = "none"
                  /\ w.kind = "end" /\ p.node = w.at
                  /\ p.node \in DOMAIN mapping
                  /\ l.fin = mapping[p.node].finalizer
                  /\ \A t \in Literals :
                        (\E e \in GetDirectKeys(mapping, p.node) : e.literal = t)
                            <=> Append(p.node, t) \in DOMAIN mapping

\* C12 witness: in one tree, a partial lookup of two tokens or more returns
\* the description of a validator that would deny, without a denial;
\* a partial lookup that ran a validator returns a node below the root that
\* has children; and a partial lookup fails with DeciderAdvancedTooFar.
C12_Witness ==
    /\ \E input \in Inputs :
          /\ Len(input) >= 2
          /\ PartialLookup(mapping, input).kind = "desc"
          /\ Lookup(mapping, input).err = "DeciderDenied"
    /\ \E input \in Inputs :
          LET p == PartialLookup(mapping, input)
          IN /\ p.kind = "map" /\ Len(input) > Len(p.node) /\ p.node # <<>>
             /\ GetDirectKeys(mapping, p.node) # {}
    /\ \E input \in Inputs :
          PartialLookup(mapping, input).err = "DeciderAdvancedTooFar"

----------------------------------------------------------------------------
(***************************************************************************)
(* Properties of interpret_multiple (under SpecMulti)                      *)
(***************************************************************************)

\* The character counts as content of a statement: any non-whitespace
\* character, parentheses too (parens) or parentheses apart.
IsContent(ch, parens) == ~IsWhitespace(ch) /\ (parens \/ ch \notin {"(", ")"})

\* LastEnd: the last statement boundary of cd before position i (0 if
\* there is none). IsEnd: position j of cd is a statement boundary, a
\* newline at depth 0 with content since the boundary before.
RECURSIVE LastEnd(_, _, _), IsEnd(_, _, _)
LastEnd(cd, i, parens) ==
    IF i <= 1 THEN 0
    ELSE IF IsEnd(cd, i - 1, parens) THEN i - 1
    ELSE LastEnd(cd, i - 1, parens)

IsEnd(cd, j, parens) ==
    /\ cd[j] = NL
    /\ DepthBefore(cd, j) = 0
    /\ \E k \in (LastEnd(cd, j, parens) + 1)..(j - 1) : IsContent(cd[k], parens)

\* The position of the first right parenthesis of cd at depth 0, or past the
\* end of cd.
FirstPremature(cd) ==
    LET ps == {i \in 1..Len(cd) : cd[i] = ")" /\ DepthBefore(cd, i) = 0}
    IN IF ps = {} THEN Len(cd) + 1 ELSE CHOOSE i \in ps : \A j \in ps : i <= j

\* The slices of cd that are statements: those ended by a boundary, and the
\* trailing one, if it has content.
StatementsOf(cd, parens) ==
    LET stop == FirstPremature(cd)
        last == LastEnd(cd, Len(cd) + 1, parens)
    IN {[start |-> LastEnd(cd, j, parens), stop |-> j - 1] :
            j \in {i \in 1..(stop - 1) : IsEnd(cd, i, parens)}}
       \cup IF /\ stop > Len(cd)
                /\ \E k \in (last + 1)..Len(cd) : IsContent(cd[k], parens)
             THEN {[start |-> last, stop |-> Len(cd)]}
             ELSE {}

\* interpret_multiple interpreted the statements of the code, in order,
\* each once.
InterpretedAre(stmts) ==
    /\ {[start |-> t.start, stop |-> t.stop] :
           t \in {interpreted.stmts[n] : n \in 1..Len(interpreted.stmts)}} = stmts
    /\ Len(interpreted.stmts) = Cardinality(stmts)
    /\ \A n \in 1..(Len(interpreted.stmts) - 1) :
          interpreted.stmts[n].stop < interpreted.stmts[n + 1].start

C21_NoBlankStatement ==
    interpreted.done =>
        /\ \A n \in 1..Len(interpreted.stmts) :
              \E k \in DOMAIN interpreted.stmts[n].text :
                  ~IsWhitespace(interpreted.stmts[n].text[k])
        /\ (\A k \in DOMAIN code : IsWhitespace(code[k])) =>
              /\ interpreted.stmts = <<>>
              /\ interpreted.err = "none"
              /\ interpreted.result = 0

\* A code of blanks with a newline at depth 0 was interpreted.
C21_Witness ==
    /\ interpreted.done
    /\ Len(code) >= 2
    /\ \A k \in DOMAIN code : IsWhitespace(code[k])
    /\ \E k \in DOMAIN code : code[k] = NL
    /\ \E k \in DOMAIN code : code[k] = " "

\* C22: interpret_multiple evaluates the statements of the code one at a
\* time in source order, each once, and when no statement fails to parse
\* it returns the result of the last one (the default result when there is
\* none): the results before are overwritten.
C22_ResultOfLast ==
    (interpreted.done /\ interpreted.err = "none") =>
        /\ InterpretedAre(StatementsOf(code, FALSE))
        /\ interpreted.result = Cardinality(StatementsOf(code, FALSE))
        /\ interpreted.result = Len(interpreted.stmts)

\* Two statements were evaluated and the result of the second returned.
C22_Witness ==
    /\ interpreted.done
    /\ interpreted.err = "none"
    /\ Len(interpreted.stmts) = 2
    /\ interpreted.result = 2

\* ---------------------------------------------------------------------
\* Properties of the evaluator's sub-commands (under SpecEval)
\* ---------------------------------------------------------------------

\* The events of the given kind in what the evaluation did.
Events(kind) == {i \in DOMAIN result.log : result.log[i].kind = kind}

\* How deep the sub-commands of a statement nest, those inside an escaped
\* command left out: depth is the nesting at character i, escaped the
\* nesting inside an escaped command, deepest the deepest nesting so far.
RECURSIVE NestingFrom(_, _, _, _, _)
NestingFrom(stmt, i, depth, escaped, deepest) ==
    IF i > Len(stmt) THEN deepest
    ELSE IF escaped > 0
    THEN NestingFrom(stmt, i + 1, depth,
                     CASE stmt[i] = "(" -> escaped + 1
                       [] stmt[i] = ")" -> escaped - 1
                       [] OTHER -> escaped,
                     deepest)
    ELSE IF stmt[i] = "(" /\ i < Len(stmt) /\ stmt[i + 1] = "#"
    THEN NestingFrom(stmt, i + 1, depth, 1, deepest)
    ELSE IF stmt[i] = "("
    THEN NestingFrom(stmt, i + 1, depth + 1, 0,
                     IF depth + 1 > deepest THEN depth + 1 ELSE deepest)
    ELSE IF stmt[i] = ")"
    THEN NestingFrom(stmt, i + 1, depth - 1, 0, deepest)
    ELSE NestingFrom(stmt, i + 1, depth, 0, deepest)

Nesting(stmt) == NestingFrom(stmt, 1, 0, 0, 0)

\* C13, as stated: with recursion limit N, a statement whose sub-commands
\* nest N+1 levels deep fails with the error 'Recursion limit reached: N'.
C13_FailsWithLimitError ==
    (result.done /\ Nesting(statement) = max_depth + 1)
        => result.fb = FeedbackErr(LimitMessage(max_depth))

\* C13, amended: with recursion limit N, a statement whose non-escaped
\* sub-commands nest at most N levels deep never meets the limit, and a
\* statement that nests deeper fails: with the error 'Recursion limit
\* reached: N', or, when a sub-command evaluated before the limit was met
\* failed, with that sub-command's error.
C13_RecursionLimit ==
    result.done =>
        /\ result.err = "none"
        /\ Nesting(statement) <= max_depth =>
              /\ Events("limit") = {}
              /\ result.fb # FeedbackErr(LimitMessage(max_depth))
        /\ Nesting(statement) > max_depth =>
              /\ ~result.fb.ok
              /\ \/ result.fb = FeedbackErr(LimitMessage(max_depth))
                 \/ Events("limit") = {}

\* A statement nesting two levels deep met the limit 1, after a sub-command
\* at the first level had been evaluated.
C13_Witness ==
    /\ result.done
    /\ max_depth = 1
    /\ Nesting(statement) = 2
    /\ Events("leave") # {}
    /\ result.fb = FeedbackErr(LimitMessage(1))

\* The sub-commands entered and not left when event i happened.
Outstanding(i) ==
    Cardinality({j \in Events("enter") : j <= i})
        - Cardinality({j \in Events("leave") : j <= i})

\* C14: after interpret_single returned, however the statement ended,
\* current_depth is 0 again, and everything the evaluation did happened at
\* a depth equal to the number of sub-commands outstanding, so that the
\* sub-commands of one statement are all evaluated at the same depth.
C14_DepthRestored ==
    result.done =>
        /\ current_depth = 0
        /\ \A i \in DOMAIN result.log : result.log[i].depth = Outstanding(i)

\* A statement failed in its second sub-command, entered at the depth of
\* the first one, which had succeeded.
C14_Witness ==
    /\ result.done
    /\ ~result.fb.ok
    /\ current_depth = 0
    /\ \E i, j \in Events("enter") :
          /\ i < j
          /\ result.log[i].depth = 1
          /\ result.log[j].depth = 1
          /\ \E h \in Events("handler") : i < h /\ h < j

\* The statement call(call(...(call _))) with k parenthesised levels, no
\* blank between call and the parenthesis.
RECURSIVE TouchingNest(_)
TouchingNest(k) ==
    IF k = 0 THEN Call \o <<" ">> \o Underscore
    ELSE Call \o <<"(">> \o TouchingNest(k - 1) \o <<")">>

\* call is registered with a validator of one string and handler 1.
CallRegistered ==
    /\ <<Call>> \in DOMAIN mapping
    /\ mapping[<<Call>>].decider = "ANY_STRING"
    /\ mapping[<<Call>>].finalizer = 1

\* The handler invocations of the evaluation, in order.
RECURSIVE HandlerCallsFrom(_)
HandlerCallsFrom(i) ==
    IF i > Len(result.log) THEN <<>>
    ELSE (IF result.log[i].kind = "handler" THEN <<result.log[i].data>> ELSE <<>>)
             \o HandlerCallsFrom(i + 1)

HandlerCalls == HandlerCallsFrom(1)

\* C15: evaluating call(call(...(call _))) with k parenthesised levels
\* touching the literal invokes the handler exactly k+1 times, innermost
\* first, and the statement succeeds with the handler's string.
C15_TouchingNestedCalls ==
    \A k \in 1..MaxItems :
        (result.done /\ CallRegistered /\ statement = TouchingNest(k)) =>
            /\ result.err = "none"
            /\ result.fb = FeedbackOk(<<"s", "t", "r", "i", "n", "g">>)
            /\ Len(HandlerCalls) = k + 1
            /\ \A i \in 1..(k + 1) : HandlerCalls[i].fin = 1
            /\ context = k + 1

\* Event i is a failure inside the statement: a sub-command's evaluation
\* returned an error, or the recursion limit was met.
IsFailure(i) ==
    \/ result.log[i].kind = "limit"
    \/ /\ result.log[i].kind = "evaluated"
       /\ result.log[i].depth >= 1
       /\ ~result.log[i].data.ok

\* The error string of the failure at event i.
FailureString(i) ==
    IF result.log[i].kind = "limit" THEN LimitMessage(max_depth)
    ELSE result.log[i].data.string

\* C17: once a sub-command failed (its handler returned Err, its lookup
\* failed or the recursion limit was met), nothing more is evaluated: no
\* sub-command is entered, no lookup is made, no handler or builtin runs
\* and no escaped command is taken; every enclosing evaluation returns the
\* same error string, and so does the statement.
C17_FailureAborts ==
    result.done =>
        \A i \in DOMAIN result.log :
            IsFailure(i) =>
                /\ result.fb = FeedbackErr(FailureString(i))
                /\ \A j \in DOMAIN result.log :
                      j > i =>
                          /\ result.log[j].kind \in {"leave", "evaluated"}
                          /\ result.log[j].kind = "evaluated" =>
                                result.log[j].data = FeedbackErr(FailureString(i))

\* The handler of a sub-command two levels deep returned Err, after a
\* sub-command had been evaluated, and two enclosing evaluations returned.
C17_Witness ==
    /\ result.done
    /\ \E h, i \in DOMAIN result.log :
          /\ i = h + 1
          /\ result.log[h].kind = "handler"
          /\ result.log[h].data.fin = 2
          /\ IsFailure(i)
          /\ result.log[i].depth = 2
          /\ Cardinality({j \in Events("evaluated") : j > i}) = 2
    /\ result.fb = FeedbackErr(<<"? is not available">>)

\* The escaped commands of a statement, and its other commands: the
\* positions of their opening parentheses.
EscapedIn(stmt) ==
    {i \in DOMAIN stmt : stmt[i] = "(" /\ i < Len(stmt) /\ stmt[i + 1] = "#"}

CommandsIn(stmt) == {i \in DOMAIN stmt : stmt[i] = "("} \ EscapedIn(stmt)

\* The lookup that takes what escape event i pushed: the next lookup at the
\* depth of i, when the evaluation at that depth has not been left before.
LookupOf(i) ==
    {j \in Events("lookup") :
        /\ j > i
        /\ result.log[j].depth = result.log[i].depth
        /\ \A n \in (i + 1)..(j - 1) :
              /\ result.log[n].depth >= result.log[i].depth
              /\ result.log[n].kind # "lookup"
                    \/ result.log[n].depth > result.log[i].depth}

\* C18: a Command that starts with '#' is neither entered nor stopped by
\* the recursion limit, at whatever depth; it is taken once, at the depth of
\* the statement it stands in, and what it holds after the '#' is one
\* argument of that statement's lookup. In a statement that succeeded every
\* escaped command was taken and every other command entered.
C18_EscapedVerbatim ==
    result.done =>
        /\ \A i \in Events("enter") \cup Events("limit") :
              result.log[i].data = <<>> \/ result.log[i].data[1] # "#"
        /\ \A i \in Events("escape") :
              /\ result.log[i].data[1] = "#"
              /\ result.log[i + 1].kind # "enter"
                    \/ result.log[i + 1].data # result.log[i].data
              /\ \A j \in LookupOf(i) :
                    \E n \in DOMAIN result.log[j].data :
                        result.log[j].data[n] = Tail(result.log[i].data)
        /\ Cardinality(Events("escape")) <= Cardinality(EscapedIn(statement))
        /\ result.fb.ok =>
              /\ Cardinality(Events("escape")) = Cardinality(EscapedIn(statement))
              /\ Cardinality(Events("enter")) = Cardinality(CommandsIn(statement))

\* An escaped command was taken at the depth of the limit, and the handler
\* got what it holds, blank included, as one argument.
C18_Witness ==
    /\ result.done
    /\ result.fb.ok
    /\ \E i \in Events("escape") :
          /\ result.log[i].depth = max_depth
          /\ max_depth = 1
          /\ \E h \in Events("handler") :
                /\ h > i
                /\ result.log[h].depth = 1
                /\ result.log[h].data.args = <<<<"_", " ", "_">>>>

\* ---------------------------------------------------------------------
\* Properties of the builtin commands (under SpecList)
\* ---------------------------------------------------------------------

\* C16: once a node is registered for the literal '?' (or 'autocomplete'),
\* no statement whose first token is that literal is answered by the
\* builtin, whatever tokens follow.
C16_UserRegistrationWins ==
    result.done =>
        \A i \in Events("lookup") :
            LET content == result.log[i].data
            IN (/\ content # <<>>
                /\ content[1] \in {QuestionMark, Autocomplete}
                /\ <<content[1]>> \in DOMAIN mapping)
                   => Events("builtin") = {}

\* The paths a handler is registered at.
HandlerPaths == {p \in DOMAIN mapping : mapping[p].finalizer # 0}

\* The line of the path p: for each node its literal, and the description
\* of its validator when it has one, separated by blanks; a blank ends the
\* line when the last node has no validator.
RECURSIVE PathLine(_)
PathLine(p) ==
    IF p = <<>> THEN <<>>
    ELSE LET has == mapping[p].decider # "None"
             piece == p[Len(p)]
                        \o (IF has THEN <<" ">> \o StrChars(Description(mapping[p].decider))
                            ELSE <<>>)
             before == SubSeq(p, 1, Len(p) - 1)
             tail == IF Len(p) > 1 /\ mapping[before].decider = "None"
                     THEN SubSeq(PathLine(before), 1, Len(PathLine(before)) - 1)
                     ELSE PathLine(before)
         IN (IF Len(p) > 1 THEN tail \o <<" ">> ELSE <<>>)
                \o piece \o (IF has THEN <<>> ELSE <<" ">>)

\* The lines of a text.
RECURSIVE Split(_)
Split(text) ==
    IF \A i \in DOMAIN text : text[i] # NL THEN <<text>>
    ELSE LET n == CHOOSE i \in DOMAIN text :
                      text[i] = NL /\ \A j \in 1..(i - 1) : text[j] # NL
         IN <<SubSeq(text, 1, n - 1)>> \o Split(SubSeq(text, n + 1, Len(text)))

LinesOf(text) == IF text = <<>> THEN <<>> ELSE Split(text)

\* The lines are those of the paths, each once, in lexicographic order.
ListsExactly(lines, paths) ==
    /\ Len(lines) = Cardinality(paths)
    /\ {lines[i] : i \in DOMAIN lines} = {PathLine(p) : p \in paths}
    /\ \A i \in 1..(Len(lines) - 1) : StrLeq(lines[i], lines[i + 1])

\* The statement was "?" and the builtin answered it.
ListedAll ==
    /\ result.done
    /\ statement = QuestionMark
    /\ Events("builtin") # {}

\* C19, as stated: '?' with no argument returns exactly one line per
\* registered spec, sorted and newline-joined.
C19_OneLinePerSpec ==
    ListedAll => result.fb.ok /\ ListsExactly(LinesOf(result.fb.string), HandlerPaths)

\* C19, amended: '?' with no argument returns exactly one line per
\* registered spec that is not empty (one per path from the root to a
\* handler below it, a path that is a prefix of a longer one included),
\* sorted lexicographically and newline-joined, and nothing else; a handler
\* registered with the empty spec, at the root, is not listed.
C19_OneLinePerPath ==
    ListedAll =>
        /\ result.fb.ok
        /\ ListsExactly(LinesOf(result.fb.string), HandlerPaths \ {<<>>})

\* '?' listed two paths, one a prefix of the other.
C19_Witness ==
    /\ ListedAll
    /\ Len(LinesOf(result.fb.string)) = 2
    /\ \E p, q \in HandlerPaths : Len(p) = 1 /\ Len(q) = 2 /\ q[1] = p[1]

\* ---------------------------------------------------------------------
\* Properties of the deciders of predicates.rs (under SpecDecide)
\* ---------------------------------------------------------------------

\* C28: MANY_I32 and MANY_STRING accept one or more tokens: each denies
\* when no token is left, MANY_I32 also denies when the first token is no
\* i32, and neither returns Accept(0).
C28_ManyAcceptOneOrMore ==
    (decision.done /\ decision.decider \in {"MANY_I32", "MANY_STRING"}) =>
        /\ decInput = <<>> => ~decision.d.accept
        /\ (/\ decision.decider = "MANY_I32"
            /\ decInput # <<>>
            /\ ~ParseI32(decInput[1]).ok) => ~decision.d.accept
        /\ decision.d.accept => decision.d.n >= 1

\* ---------------------------------------------------------------------
\* Properties of a validator's denial (under SpecDeny)
\* ---------------------------------------------------------------------

\* C30: when the traversal of a lookup comes to a node whose validator
\* denies the tokens after the literal, the lookup fails with
\* DeciderDenied(that validator's description, its reason) and returns no
\* handler, and that node is the last one the traversal went to: no deeper
\* node is visited and no later validator invoked. A lookup fails with
\* DeciderDenied in no other case.
C30_DenyStopsLookup ==
    \A input \in DenyInputs :
        \A r \in {LookupInternal(mapping, <<>>, input, <<>>)} :
        \A w \in {Walk(mapping, input, <<>>, 1)} :
            /\ (w.kind = "denied") <=> (r.err = "DeciderDenied")
            /\ w.kind = "denied" =>
                  LET node == Append(w.at, input[w.i])
                      d == Decide(mapping[node].decider,
                                  SubSeq(input, w.i + 1, Len(input)))
                  IN /\ r.desc = Description(mapping[node].decider)
                     /\ r.reason = d.reason
                     /\ r.fin = 0
                     /\ r.visits # <<>>
                     /\ r.visits[Len(r.visits)].node = node
                     /\ \A i \in 1..(Len(r.visits) - 1) : r.visits[i].accept
            /\ \A i \in 1..(Len(r.visits) - 1) : r.visits[i].accept

\* A validator denied a word that is the literal of a child of its node,
\* a child with a handler, and a token was left after the word.
C30_Witness ==
    \E input \in DenyInputs :
        LET r == LookupInternal(mapping, <<>>, input, <<>>)
        IN /\ r.err = "DeciderDenied"
           /\ Len(input) = 3
           /\ input[2] = <<"b">>
           /\ Len(r.visits) = 1
           /\ r.visits[1].node = <<<<"a">>>>
           /\ r.reason = <<"got string: ", <<"b">>>>
           /\ r.desc = "<i32>"
           /\ <<<<"a">>, <<"b">>>> \in DOMAIN mapping
           /\ mapping[<<<<"a">>, <<"b">>>>].finalizer # 0

----------------------------------------------------------------------------
(***************************************************************************)
(* Properties of IncConsumer::run driven by a GameShell (under SpecInc)    *)
(***************************************************************************)

\* What arrived from byte j on, read without a buffer: st is the parser
\* before byte j, last the place of the last byte that validated Ready or
\* Discard, and dropped tells whether a byte validated Discard since the
\* last Ready byte. Each Ready byte gives a range: the bytes after the
\* boundary before it up to the Ready byte itself. pending are the bytes
\* after the last boundary.
RECURSIVE ScanFrom(_, _, _, _, _)
ScanFrom(s, j, st, last, dropped) ==
    IF j > Len(s) THEN [ranges |-> <<>>, pending |-> SubSeq(s, last + 1, Len(s))]
    ELSE LET r == ParseIncrement(st, s[j])
             next == [lparen_stack |-> r.lparen_stack,
                      has_encountered_rparen |-> r.has_encountered_rparen]
         IN CASE r.op = "Ready" ->
                   [ScanFrom(s, j + 1, next, j, FALSE)
                        EXCEPT !.ranges = <<[bytes |-> SubSeq(s, last + 1, j),
                                             dropped |-> dropped]>> \o @]
              [] r.op = "Discard" -> ScanFrom(s, j + 1, next, j, TRUE)
              [] OTHER -> ScanFrom(s, j + 1, next, last, dropped)

\* The bytes that arrived, read by a parser that is new when run is called.
Scan == ScanFrom(arrived, 1, PartialParseDefault, 0, FALSE)

\* C23: whatever the reads the source's bytes arrive in, process is called
\* once per Ready byte, in the order of arrival, with the bytes that arrived
\* after the Ready or Discard byte before it up to the Ready byte itself:
\* the calls made are the first of these ranges, and all of them for as long
\* as process has not ended the session.
C23_ProcessArguments ==
    \A sc \in {Scan} :
        /\ Len(processed) <= Len(sc.ranges)
        /\ \A k \in 1..Len(processed) : processed[k] = sc.ranges[k].bytes
        /\ status # "process" => Len(processed) = Len(sc.ranges)

\* Two statements were processed, and the second, which arrived after the
\* first, lies at the start of the buffer and fills it.
C23_Witness ==
    /\ arrived = <<NL, "(", ")", NL>>
    /\ processed = <<<<NL>>, <<"(", ")", NL>>>>
    /\ buf = <<"(", ")", NL>>
    /\ begin = 3
    /\ shift = 3
    /\ status = "running"

\* C24: no byte of a discarded statement is passed to process: when a byte
\* since the Ready byte before validated Discard, the range processed at the
\* next Ready byte is the newline that ends the statement, alone.
C24_DiscardedNeverProcessed ==
    \A sc \in {Scan} :
        \A k \in 1..Len(processed) :
            (k <= Len(sc.ranges) /\ sc.ranges[k].dropped) => processed[k] = <<NL>>

\* A statement with a parenthesis too many was discarded, the bytes before
\* and after the parenthesis with it, and its newline processed alone.
C24_Witness ==
    /\ arrived = <<"a", ")", "a", NL>>
    /\ processed = <<<<NL>>>>
    /\ status = "running"

\* The last write call is the DecodeError with the message msg.
LastWriteIs(msg) ==
    /\ writer # <<>>
    /\ writer[Len(writer)].kind = "DecodeError"
    /\ writer[Len(writer)].data = <<msg>>

\* C25: a statement fits when it is no longer than the buffer, its newline
\* counted: run returns on a full buffer exactly when as many bytes as the
\* buffer holds have arrived since the last Ready or Discard byte; the
\* buffer-full DecodeError is then written and none of these bytes is
\* processed. A read never ends a session whose buffer is full.
C25_FitsIffWithinBuffer ==
    \A sc \in {Scan} :
        /\ Len(sc.pending) <= Len(buf)
        /\ \A k \in 1..Len(processed) : Len(processed[k]) <= Len(buf)
        /\ status = "full" =>
               /\ Len(sc.pending) = Len(buf)
               /\ LastWriteIs(BufferFullMessage)
               /\ Len(processed) = Len(sc.ranges)
        /\ status = "source" => Len(sc.pending) < Len(buf)

\* A statement as long as the buffer was processed whole; the next one is
\* longer, and the session ended on the full buffer with a byte yet to be
\* read.
C25_Witness ==
    /\ Len(buf) = 1
    /\ arrived = <<NL, "a">>
    /\ reader = <<NL>>
    /\ processed = <<<<NL>>>>
    /\ status = "full"

\* C26: when the read returns Ok(0) or Err, run returns without a call of
\* process: the calls made are those of the Ready bytes, each range ends
\* with its newline, nothing was written for the bytes that arrived after
\* the last boundary, and they were not evaluated.
C26_StopDropsPending ==
    status = "source" =>
        /\ Len(processed) = Len(Scan.ranges)
        /\ Len(writer) = Len(processed)
        /\ evaluated = processed
        /\ \A k \in 1..Len(processed) : processed[k][Len(processed[k])] = NL

\* The source is exhausted after a statement without its newline.
C26_Witness ==
    /\ status = "source"
    /\ reader = <<>>
    /\ arrived = <<"a", NL, "a">>
    /\ processed = <<<<"a", NL>>>>

\* The byte range holds the byte 0xFF.
HoldsInvalidByte(input) == \E i \in DOMAIN input : input[i] = InvalidByte

\* C27: a Ready byte range that is not UTF-8 is not evaluated; the
\* invalid-UTF-8 DecodeError is written and run returns: it is the last
\* range processed.
C27_InvalidUtf8EndsSession ==
    \A k \in 1..Len(processed) :
        HoldsInvalidByte(processed[k]) =>
            /\ k = Len(processed)
            /\ status = "process"
            /\ LastWriteIs(InvalidUtf8Message)
            /\ evaluated = SubSeq(processed, 1, k - 1)

\* A statement with the byte 0xFF arrived in one read with the statement
\* after it, which is not processed.
C27_Witness ==
    /\ arrived = <<"a", NL, InvalidByte, NL>> \/ arrived = <<InvalidByte, NL, NL>>
    /\ processed[Len(processed)] = <<InvalidByte, NL>>
    /\ buf[Len(arrived)] = NL
    /\ evaluated = SubSeq(processed, 1, Len(processed) - 1)
    /\ status = "process"

----------------------------------------------------------------------------
(***************************************************************************)
(* Further properties of Mapping (under SpecMap)                           *)
(***************************************************************************)

\* The values the validators on the path of input push, in the order of the
\* path from the root: at node `at` with token i the next one, the child's
\* validator is given the tokens after token i.
RECURSIVE PushesAlong(_, _, _, _)
PushesAlong(m, input, at, i) ==
    IF i > Len(input) \/ Append(at, input[i]) \notin DOMAIN m THEN <<>>
    ELSE IF m[Append(at, input[i])].decider = "None"
    THEN PushesAlong(m, input, Append(at, input[i]), i + 1)
    ELSE LET d == Decide(m[Append(at, input[i])].decider,
                         SubSeq(input, i + 1, Len(input)))
         IN d.push \o PushesAlong(m, input, Append(at, input[i]), i + 1 + d.n)

\* C31: the argument buffer of a successful lookup is the concatenation, in
\* the order of the path from the root to the handler, of the values the
\* validators on the path pushed, whatever the token counts they accepted.
C31_OutputIsPushesInPathOrder ==
    \A input \in Inputs :
        \A r \in {Lookup(mapping, input)} :
            r.err = "none" => r.out = PushesAlong(mapping, input, <<>>, 1)

\* A lookup succeeded whose validator accepted two tokens and pushed
\* nothing, and another whose validator accepted one token and pushed it.
C31_Witness ==
    /\ <<"a">> \in DOMAIN mapping
    /\ mapping[<<"a">>].decider = "IGNORE_ALL"
    /\ Lookup(mapping, <<"a", "b", "a">>).err = "none"
    /\ Lookup(mapping, <<"a", "b", "a">>).out = <<>>
    /\ <<"b">> \in DOMAIN mapping
    /\ mapping[<<"b">>].decider = "ANY_STRING"
    /\ Lookup(mapping, <<"b", "a">>).err = "none"
    /\ Lookup(mapping, <<"b", "a">>).out = <<"a">>

----------------------------------------------------------------------------
(***************************************************************************)
(* Properties of IncConsumer::run when validate or process returns Stop    *)
(* (under SpecStop)                                                        *)
(***************************************************************************)

\* The write call w is one after which process returns Stop: the
\* invalid-UTF-8 DecodeError, or a write of process the writer refused.
StoppingWrite(w) ==
    IF w.kind = "DecodeError"
    THEN w.data = <<InvalidUtf8Message>>
    ELSE ~w.ok

\* The bytes passed to validate, read without a buffer.
ValidatedScan == ScanFrom(validated, 1, PartialParseDefault, 0, FALSE)

\* C32: once validate returned Stop or process returned Stop, run returns:
\* the byte validate stopped at is the last one passed to validate and no
\* range is processed for it; the range process stopped at is the last one
\* processed and its Ready byte the last one passed to validate, whatever
\* bytes lie in the buffer after it.
C32_StopReturnsAtOnce ==
    /\ validated = SubSeq(arrived, 1, Len(validated))
    /\ \A i \in 1..Len(validated) :
          validated[i] \in stop_on =>
              /\ i = Len(validated)
              /\ status = "validate"
              /\ Len(processed) = Len(ValidatedScan.ranges)
    /\ \A k \in 1..Len(writer) :
          StoppingWrite(writer[k]) =>
              /\ k = Len(writer)
              /\ status = "process"
              /\ Len(processed) = k
              /\ ValidatedScan.pending = <<>>
              /\ Len(ValidatedScan.ranges) = k
              /\ ValidatedScan.ranges[k].bytes = processed[k]

\* validate returned Stop after a statement was processed, with the
\* statement after the byte it stopped at already in the buffer.
C32_Witness ==
    /\ status = "validate"
    /\ arrived = <<NL, "a", NL>>
    /\ buf = <<NL, "a", NL>>
    /\ validated = <<NL, "a">>
    /\ processed = <<<<NL>>>>

----------------------------------------------------------------------------
(***************************************************************************)
(* The ranges GameShell hands to interpret_single (under SpecInc)          *)
(***************************************************************************)

\* The depth after the bytes of s from position i on, starting at depth d;
\* -1 once a right parenthesis occurred at depth 0.
RECURSIVE DepthAfterBytes(_, _, _)
DepthAfterBytes(s, i, d) ==
    IF i > Len(s) THEN d
    ELSE IF s[i] = "(" THEN DepthAfterBytes(s, i + 1, d + 1)
    ELSE IF s[i] = ")"
    THEN IF d = 0 THEN -1 ELSE DepthAfterBytes(s, i + 1, d - 1)
    ELSE DepthAfterBytes(s, i + 1, d)

\* C33: every range GameShell::process hands to interpret_single has balanced
\* parentheses, parse accepts it, and no ParseError is written to the writer,
\* whatever bytes arrived and however the reads cut them.
C33_ForwardedRangesBalanced ==
    /\ \A k \in 1..Len(evaluated) :
          /\ DepthAfterBytes(evaluated[k], 1, 0) = 0
          /\ Parse(evaluated[k]).err = "none"
    /\ \A k \in 1..Len(writer) : writer[k].kind # "ParseError"

\* A range with parentheses was handed on after an empty statement.
C33_Witness ==
    /\ arrived = <<NL, "(", ")", NL>>
    /\ Len(buf) = 3
    /\ evaluated = <<<<NL>>, <<"(", ")", NL>>>>
    /\ Len(writer) = 2

----------------------------------------------------------------------------
(***************************************************************************)
(* The content of Command tokens (under SpecParse)                         *)
(***************************************************************************)

\* parse accepts the text, and the content of every Command token it yields,
\* level by level.
RECURSIVE ParsesAtEveryLevel(_)
ParsesAtEveryLevel(text) ==
    \E p \in {Parse(text)} :
        /\ p.err = "none"
        /\ \A k \in 1..Len(p.tokens) :
              p.tokens[k].kind = "Command" => ParsesAtEveryLevel(p.tokens[k].text)

----------------------------------------------------------------------------
(***************************************************************************)
(* Errors of interpret_multiple (under SpecMulti)                          *)
(***************************************************************************)

\* C35: interpret_multiple returns PrematureRightParenthesis for a block
\* with a right parenthesis at depth 0 and DanglingLeftParenthesis for a
\* block that ends with a left parenthesis still open.
C35_UnbalancedBlockIsError ==
    interpreted.done =>
        /\ DepthAfterBytes(code, 1, 0) = -1 =>
              interpreted.err = "PrematureRightParenthesis"
        /\ DepthAfterBytes(code, 1, 0) > 0 =>
              interpreted.err = "DanglingLeftParenthesis"

----------------------------------------------------------------------------
(***************************************************************************)
(* Lookups across register calls (under SpecMap)                           *)
(***************************************************************************)

\* The tree after the first k register calls of the log.
RECURSIVE MappingAfter(_)
MappingAfter(k) ==
    IF k = 0 THEN NewMapping("None")
    ELSE Register(MappingAfter(k - 1), <<>>, regLog[k].spec, regLog[k].fin).map

\* C36: a lookup that succeeded after some register call succeeds after
\* every later register call, failed or not, with the same handler and the
\* same argument buffer.
C36_LookupsStay ==
    /\ mapping = MappingAfter(Len(regLog))
    /\ \A k \in 0..Len(regLog) :
          \A before \in {MappingAfter(k)} :
              \A input \in Inputs :
                  \A r \in {Lookup(before, input)} :
                      r.err = "none" =>
                          \A now \in {Lookup(mapping, input)} :
                              /\ now.err = "none"
                              /\ now.fin = r.fin
                              /\ now.out = r.out

\* A lookup succeeded whose validator took the token b; then a child b was
\* registered under the same node.
C36_Witness ==
    /\ Len(regLog) = 2
    /\ regLog[1].err = "none"
    /\ regLog[1].spec = <<[literal |-> "a", decider |-> "ANY_STRING"]>>
    /\ regLog[2].err = "none"
    /\ <<"a", "b">> \in DOMAIN mapping
    /\ Lookup(MappingAfter(1), <<"a", "b">>).err = "none"
    /\ Lookup(mapping, <<"a", "b">>).fin = 1
    /\ Lookup(mapping, <<"a", "b">>).out = <<"b">>

----------------------------------------------------------------------------
(***************************************************************************)
(* register_many (under SpecMany)                                          *)
(***************************************************************************)

\* The literals of a spec, which is the path of the node its finalizer is
\* bound to.
PathOf(spec) == [j \in 1..Len(spec) |-> spec[j].literal]

\* The finalizer of the i-th spec of the call e is bound in the tree m.
Applied(m, e, i) ==
    /\ PathOf(e.specs[i]) \in DOMAIN m
    /\ m[PathOf(e.specs[i])].finalizer = e.fin0 + i

\* The finalizer of the i-th spec of the call e is bound nowhere in m.
NotApplied(m, e, i) == \A p \in DOMAIN m : m[p].finalizer # e.fin0 + i

\* C37: register_many registers its specs in order up to the first one that
\* register refuses and returns that one's error; the specs before it are
\* registered after the call, and neither it nor any spec after it is.
C37_StopsAtFirstFailure ==
    regLog # <<>> =>
        \A e \in {regLog[Len(regLog)]} :
            IF e.err = "none"
            THEN /\ e.failed = 0
                 /\ \A i \in 1..Len(e.specs) : Applied(mapping, e, i)
            ELSE /\ e.failed \in 1..Len(e.specs)
                 /\ \A i \in 1..(e.failed - 1) : Applied(mapping, e, i)
                 /\ \A i \in e.failed..Len(e.specs) : NotApplied(mapping, e, i)
                 /\ Register(mapping, <<>>, e.specs[e.failed], e.fin0 + e.failed).err
                        = e.err

\* The second of three specs failed: the first is registered, the third,
\* which register would have accepted, is not.
C37_Witness ==
    /\ Len(regLog) = 1
    /\ regLog[1].specs = <<<<[literal |-> "a", decider |-> "None"]>>,
                           <<[literal |-> "a", decider |-> "None"]>>,
                           <<>> >>
    /\ regLog[1].err = "FinalizerAlreadyExists"
    /\ regLog[1].failed = 2
    /\ mapping[<<"a">>].finalizer = 1
    /\ mapping[<<>>].finalizer = 0
    /\ Register(mapping, <<>>, <<>>, 3).err = "none"

----------------------------------------------------------------------------
(***************************************************************************)
(* Sub-commands of a failing statement (under SpecEval)                    *)
(***************************************************************************)

\* The events of the given kind and depth among the first n of the log.
RECURSIVE EventsOf(_, _, _, _)
EventsOf(log, n, kind, depth) ==
    IF n = 0 THEN 0
    ELSE EventsOf(log, n - 1, kind, depth)
         + (IF log[n].kind = kind /\ log[n].depth = depth THEN 1 ELSE 0)

\* The calls of handler 1, which adds one to the context, in the log.
RECURSIVE CountingCalls(_)
CountingCalls(log) ==
    IF log = <<>> THEN 0
    ELSE CountingCalls(Tail(log))
         + (IF Head(log).kind = "handler" /\ Head(log).data.fin = 1 THEN 1 ELSE 0)

\* The Data of the tokens that are sub-commands to interpret.
Subcommands(tokens) ==
    {k \in 1..Len(tokens) : tokens[k].kind = "Command" /\ ~IsEscaped(tokens[k].text)}

\* C38: what the handlers of the sub-commands did to the context stays when
\* the statement fails, and every sub-command of the statement was
\* interpreted before the lookup of the statement's own words, whether the
\* lookup then succeeds or not.
C38_SubcommandEffectsStay ==
    result.done =>
        /\ context = CountingCalls(result.log)
        /\ \A p \in 1..Len(result.log) :
              (result.log[p].kind = "lookup" /\ result.log[p].depth = 0) =>
                  /\ EventsOf(result.log, p, "leave", 0)
                        = Cardinality(Subcommands(Parse(statement).tokens))
                  /\ EventsOf(result.log, Len(result.log), "enter", 1)
                        = EventsOf(result.log, p, "enter", 1)

\* The sub-command ran its handler, the word in front of it is unknown, and
\* the context keeps what the handler did.
C38_Witness ==
    /\ result.done
    /\ statement = Fail \o <<" ", "(">> \o Call \o <<" ", "_", ")">>
    /\ result.err = "none"
    /\ ~result.fb.ok
    /\ \E p \in 1..Len(result.log) : result.log[p].kind = "lookup"
                                     /\ result.log[p].depth = 0
    /\ \A p \in 1..Len(result.log) : result.log[p].depth = 0 =>
                                     result.log[p].kind # "handler"
    /\ context = 1

----------------------------------------------------------------------------
(***************************************************************************)
(* The content looked up (under SpecSub)                                   *)
(***************************************************************************)

\* The place in the log of the n-th event of the given kind and depth.
NthEvent(log, kind, depth, n) ==
    CHOOSE q \in 1..Len(log) :
        /\ log[q].kind = kind
        /\ log[q].depth = depth
        /\ EventsOf(log, q, kind, depth) = n

\* What interpret_single returned for the n-th sub-command of the
\* statement: the event before the one that records its return.
ReturnedBy(log, n) == log[NthEvent(log, "leave", 0, n) - 1]

\* C39: the content handed to lookup has one entry for each Data of the
\* statement, in their order: an atom's text, an escaped command's text
\* less the #, and for a sub-command the whole string it returned, blanks
\* and parentheses included.
C39_OneEntryPerToken ==
    result.done =>
        \A p \in 1..Len(result.log) :
            (result.log[p].kind = "lookup" /\ result.log[p].depth = 0) =>
                \A tokens \in {Parse(statement).tokens} :
                    /\ Len(result.log[p].data) = Len(tokens)
                    /\ \A k \in 1..Len(tokens) :
                          IF tokens[k].kind = "Atom"
                          THEN result.log[p].data[k] = tokens[k].text
                          ELSE IF IsEscaped(tokens[k].text)
                          THEN result.log[p].data[k] = Tail(tokens[k].text)
                          ELSE \A r \in {ReturnedBy(result.log,
                                    Cardinality({j \in Subcommands(tokens) : j <= k}))} :
                                   /\ r.kind = "evaluated"
                                   /\ r.depth = 1
                                   /\ r.data.ok
                                   /\ result.log[p].data[k] = r.data.string

\* The sub-command autocomplete answered with a line that holds blanks and
\* parentheses, and call got the line as its one argument.
C39_Witness ==
    /\ result.done
    /\ statement = Call \o <<" ", "(">> \o Autocomplete \o <<")">>
    /\ result.fb.ok
    /\ \E p \in 1..Len(result.log) :
          /\ result.log[p].kind = "lookup"
          /\ result.log[p].depth = 0
          /\ Len(result.log[p].data) = 2
          /\ \E i, j \in 1..Len(result.log[p].data[2]) :
                /\ result.log[p].data[2][i] = " "
                /\ result.log[p].data[2][j] = "("
    /\ \E p \in 1..Len(result.log) :
          /\ result.log[p].kind = "handler"
          /\ result.log[p].depth = 0
          /\ Len(result.log[p].data.args) = 1

----------------------------------------------------------------------------
(***************************************************************************)
(* The indices of run and the bytes validated (under SpecInc)              *)
(***************************************************************************)

\* The indices into the buffer that the next turn of run's loop uses are in
\* range: those the shift loop reads and writes, the start of the slice
\* handed to consume, and the bytes of any amount that fits the slice.
NextTurnInRange ==
    /\ \A idx \in shift..(begin - 1) :
          /\ idx < Len(buf)
          /\ idx - shift >= 0
          /\ idx - shift < Len(buf)
    /\ begin - shift <= Len(buf)
    /\ \A amount \in 0..(Len(buf) - (begin - shift)) :
          (begin - shift) + amount <= Len(buf)

\* C40 as stated: the indices of run stay ordered and in range, and in
\* every turn all bytes consume delivered were passed to validate, once
\* each and in the order of their arrival.
C40_EveryByteValidated ==
    /\ 0 <= shift
    /\ shift <= begin
    /\ begin <= Len(buf)
    /\ NextTurnInRange
    /\ validated = arrived

\* C40, amended: the indices of run stay ordered and in range; the bytes
\* passed to validate are, in order, the first bytes that arrived, and all
\* of them unless run returned because process or validate returned Stop.
C40_ValidatedInOrderUntilStop ==
    /\ 0 <= shift
    /\ shift <= begin
    /\ begin <= Len(buf)
    /\ NextTurnInRange
    /\ Len(validated) <= Len(arrived)
    /\ validated = SubSeq(arrived, 1, Len(validated))
    /\ status \notin {"process", "validate"} => validated = arrived
    /\ status = "process" => validated # <<>> /\ validated[Len(validated)] = NL

\* Three bytes arrived in one read; process returned Stop for the range the
\* first two make, and the third was never passed to validate.
C40_Witness ==
    /\ status = "process"
    /\ arrived = <<InvalidByte, NL, "a">>
    /\ validated = <<InvalidByte, NL>>
    /\ begin = 2
    /\ shift = 0
    /\ Len(buf) = 3

====
